---------------------------- MODULE Spec2Model ----------------------------
(***************************************************************************)
(* Model of src/lenet.cpp: LeNet training over MPI with a consensus        *)
(* (ADMM-like) weight update.  Rank 0 is the coordinator, ranks 1..N are   *)
(* the workers.                                                            *)
(*                                                                         *)
(* Tensors.  The program keeps, per process, eight parameter tensors in    *)
(* four device copies (local p, global gp, dual residual gdp, gradient g)  *)
(* and two host copies (h_gp, h_gdp).  Every update of the program is a    *)
(* cublasSaxpy, which is elementwise, always issued with the element count *)
(* of its destination tensor and stride 1.  A tensor is therefore          *)
(* represented by the value of one element, at an index k smaller than     *)
(* every tensor's size; a set of eight tensors is a record with one field  *)
(* per parameter.  Floats are represented by integers (exact arithmetic).  *)
(***************************************************************************)
EXTENDS Integers, Sequences, FiniteSets, TLC

VARIABLES
    pc,            \* position of each process in main's training loop
    iter,          \* loop variable iter of each process (line 1191)
    idx,           \* loop variable i of the fan-out / collection loops
    exitStatus,    \* process exit status once it has exited, else -1
    hostW,         \* conv1.pconv, conv1.pbias, ..., fc2.pbias (host vectors)
    d_p,           \* d_pconv1 .. d_pfc2bias     (local weights, device)
    d_gp,          \* d_gpconv1 .. d_gpfc2bias   (global weights, device)
    d_gdp,         \* d_gdpconv1 .. d_gdpfc2bias (dual residual, device)
    d_g,           \* d_gconv1 .. d_gfc2bias     (gradients, device)
    h_gp,          \* h_gpconv1 .. h_gpfc2bias   (global weights, host)
    h_gdp,         \* h_gdpconv1 .. h_gdpfc2bias (dual residual, host)
    mBatch,        \* train_images_mBatch_float / train_labels_mBatch_float
    d_batch,       \* d_data / d_labels
    d_act,         \* d_conv1 .. d_fc2smax and d_cudnn_workspace (device)
    learningRate,  \* learningRate of the current iteration (line 1257)
    rho,           \* rho of the current iteration (line 1259)
    chan,          \* point-to-point messages in flight, per (source, dest)
    bcast,         \* broadcast payloads not yet taken, per receiving rank
    fanoutSent,    \* history: batches rank 0 sent to each worker this iteration
    residRecvd,    \* history: residual sets rank 0 received per worker this iteration
    devBefore,     \* history: rank 0's device global weights before line 1235
    dLog,          \* history: residuals computed by UpdateLocalWeights, per call
    pLog,          \* history: local weights left by UpdateLocalWeights, per call
    fpLog,         \* history: weights read by ForwardPropagation, per call
    steps,         \* history: the steps each process has performed, in order
    sentLog,       \* history: residual sets each worker has sent, per iteration
    gLog,          \* history: rank 0's global weights around each collection loop
    dataset,       \* width, height, train_size, train_images_size of each process
    call           \* a single call of a function: arguments and results

vars ==
    << pc, iter, idx, exitStatus, hostW, d_p, d_gp, d_gdp, d_g, h_gp, h_gdp,
       mBatch, d_batch, d_act, learningRate, rho, chan, bcast,
       fanoutSent, residRecvd, devBefore, dLog, pLog, fpLog, steps,
       sentLog, gLog, dataset, call >>

mainVars ==
    << pc, iter, idx, exitStatus, hostW, d_p, d_gp, d_gdp, d_g, h_gp, h_gdp,
       mBatch, d_batch, d_act, learningRate, rho, chan, bcast,
       fanoutSent, residRecvd, devBefore, dLog, pLog, fpLog, steps,
       sentLog, gLog, dataset >>

-----------------------------------------------------------------------------
(* Bounds *)

\* number of worker ranks (n_proc - 1)
NWorkers ==
    2

\* FLAGS_iterations, bounded
MaxIter ==
    2

\* num_mBatch: number of mini-batches in the training set, bounded
NumMBatch ==
    2

\* iterations for which SpecServed supplies a worker's batch
ServedIters ==
    2

\* number of test images classified (FLAGS_classify, or test_size), bounded
MaxClassify ==
    2

\* FLAGS_batch_size as passed to a call of Backpropagation, bounded
MaxBatchSize ==
    2

\* ref_fc2.outputs, the number of classes (10 in main), bounded
NumOutputs ==
    3

\* largest image width and height of a network under construction
MaxDim ==
    30

\* largest train_size of a batch selection
MaxTrainSize ==
    8

\* largest value of rand() (RAND_MAX), bounded
RandMax ==
    5

-----------------------------------------------------------------------------
(* Parameter tensors *)

Params ==
    {"conv1", "conv1bias", "conv2", "conv2bias", "fc1", "fc1bias", "fc2", "fc2bias"}

\* position of a parameter in the argument lists of the update functions
ParamIdx(q) ==
    CASE q = "conv1" -> 0 [] q = "conv1bias" -> 1
      [] q = "conv2" -> 2 [] q = "conv2bias" -> 3
      [] q = "fc1"   -> 4 [] q = "fc1bias"   -> 5
      [] q = "fc2"   -> 6 [] q = "fc2bias"   -> 7

\* a set of eight tensors, all holding v
Fill(v) ==
    [q \in Params |-> v]

\* a set of eight tensors with pairwise different contents
Ramp(v) ==
    [q \in Params |-> v + ParamIdx(q)]

\* y := alpha * x + y  (one element)
Saxpy(alpha, x, y) ==
    alpha * x + y

-----------------------------------------------------------------------------
(* TrainingContext::UpdateLocalWeights, lines 736-848.  Arguments in the   *)
(* order of the signature: gp = global weights, gdp = dual residual,       *)
(* p = local weights, g = gradients.  The result holds the four tensor     *)
(* sets as the call leaves them.                                           *)

UpdateLocalWeights(learning_rate, rho_, gp, gdp, p, g) ==
    LET alpha           == -learning_rate
        rho_alpha       == -rho_ * alpha
        minus_rho_alpha == rho_alpha
        minus_one       == -1
        \* Conv1 (lines 763-771): the last saxpy reads gpconv1
        gdpconv1 == Saxpy(minus_rho_alpha, gp.conv1, Saxpy(rho_alpha, p.conv1, 0))
        pconv1   == Saxpy(alpha, gp.conv1, Saxpy(minus_one, gdpconv1, p.conv1))
        \* Conv1 bias (lines 774-782)
        gdpconv1bias == Saxpy(minus_rho_alpha, gp.conv1bias,
                              Saxpy(rho_alpha, p.conv1bias, 0))
        pconv1bias   == Saxpy(alpha, g.conv1bias,
                              Saxpy(minus_one, gdpconv1bias, p.conv1bias))
        \* Conv2 (lines 785-793)
        gdpconv2 == Saxpy(minus_rho_alpha, gp.conv2, Saxpy(rho_alpha, p.conv2, 0))
        pconv2   == Saxpy(alpha, g.conv2, Saxpy(minus_one, gdpconv2, p.conv2))
        \* Conv2 bias (lines 795-803): the second saxpy reads gpconv2
        gdpconv2bias == Saxpy(minus_rho_alpha, gp.conv2,
                              Saxpy(rho_alpha, p.conv2bias, 0))
        pconv2bias   == Saxpy(alpha, g.conv2bias,
                              Saxpy(minus_one, gdpconv2bias, p.conv2bias))
        \* Fully connected 1 (lines 806-814): the memset clears gfc1, not gdpfc1
        gfc1   == 0
        gdpfc1 == Saxpy(minus_rho_alpha, gp.fc1, Saxpy(rho_alpha, p.fc1, gdp.fc1))
        pfc1   == Saxpy(alpha, gfc1, Saxpy(minus_one, gdpfc1, p.fc1))
        \* Fully connected 1 bias (lines 817-825)
        gdpfc1bias == Saxpy(minus_rho_alpha, gp.fc1bias,
                            Saxpy(rho_alpha, p.fc1bias, 0))
        pfc1bias   == Saxpy(alpha, g.fc1bias,
                            Saxpy(minus_one, gdpfc1bias, p.fc1bias))
        \* Fully connected 2 (lines 828-836)
        gdpfc2 == Saxpy(minus_rho_alpha, gp.fc2, Saxpy(rho_alpha, p.fc2, 0))
        pfc2   == Saxpy(alpha, g.fc2, Saxpy(minus_one, gdpfc2, p.fc2))
        \* Fully connected 2 bias (lines 839-847)
        gdpfc2bias == Saxpy(minus_rho_alpha, gp.fc2bias,
                            Saxpy(rho_alpha, p.fc2bias, 0))
        pfc2bias   == Saxpy(alpha, g.fc2bias,
                            Saxpy(minus_one, gdpfc2bias, p.fc2bias))
    IN  [ gp  |-> gp,
          gdp |-> [ conv1 |-> gdpconv1, conv1bias |-> gdpconv1bias,
                    conv2 |-> gdpconv2, conv2bias |-> gdpconv2bias,
                    fc1   |-> gdpfc1,   fc1bias   |-> gdpfc1bias,
                    fc2   |-> gdpfc2,   fc2bias   |-> gdpfc2bias ],
          p   |-> [ conv1 |-> pconv1, conv1bias |-> pconv1bias,
                    conv2 |-> pconv2, conv2bias |-> pconv2bias,
                    fc1   |-> pfc1,   fc1bias   |-> pfc1bias,
                    fc2   |-> pfc2,   fc2bias   |-> pfc2bias ],
          g   |-> [g EXCEPT !.fc1 = gfc1] ]

(* TrainingContext::UpdateGlobalWeights, lines 851-889: p are the global   *)
(* weights, g the received residuals.                                      *)
UpdateGlobalWeights(learning_rate, p, g) ==
    LET alpha == learning_rate
    IN  [q \in Params |-> Saxpy(alpha, g[q], p[q])]

-----------------------------------------------------------------------------
(* Processes, message tags, memory contents *)

Procs ==
    0 .. NWorkers

Workers ==
    1 .. NWorkers

COMM_XDATA ==
    0

COMM_XLABEL ==
    1

\* COMM_GDCONV1 .. COMM_GDFC2BIAS are 14 .. 21, in the order of Params
COMM_GDCONV1 ==
    14

ResidualTag(q) ==
    COMM_GDCONV1 + ParamIdx(q)

ParamOfTag(tag) ==
    CHOOSE q \in Params : ResidualTag(q) = tag

\* rho, set in every iteration
RhoValue ==
    10

\* scale of the integer stand-in for FLAGS_learning_rate
LRScale ==
    4

\* learning rate of iteration it: base * (1 + gamma * it)^(-power), here with
\* gamma = power = 1 on integers: positive and decreasing with it
LearningRate(it) ==
    LRScale \div (1 + it)

\* contents of a buffer that was allocated and never written
Uninit ==
    [uninit |-> TRUE]

\* what the bytes of a never-written buffer of eight tensors may hold
Garbage ==
    {Fill(-3), Ramp(5)}

\* the random (Xavier) initial weights a process may draw, lines 1010-1043
InitWeights ==
    {Fill(1), Ramp(2)}

\* what Backpropagation may leave in the eight gradient tensors
Gradients ==
    {Fill(2), Ramp(-1)}

\* a never-written buffer holds some bytes: v if it was written, else junk
Resolve(v, junk) ==
    IF v = Uninit THEN junk ELSE v

\* mini-batch b of the training set: its images and its labels
ImgSlice(b) ==
    [kind |-> "images", mbid |-> b]

LabSlice(b) ==
    [kind |-> "labels", mbid |-> b]

\* a batch buffer that was never written
NoBatch ==
    [kind |-> "uninit", mbid |-> -1]

\* the bytes found at the address of a pointer variable of main's frame
StackBytes ==
    [kind |-> "stack", mbid |-> -1]

\* a point-to-point message; it is history (the sender's iteration), not data
Msg(tag, val, it) ==
    [tag |-> tag, val |-> val, it |-> it]

HasMsg(q, tag) ==
    \E k \in 1 .. Len(q) : q[k].tag = tag

\* MPI matching: the first message of the queue that carries the tag
FirstWith(q, tag) ==
    CHOOSE k \in 1 .. Len(q) :
        q[k].tag = tag /\ \A j \in 1 .. (k - 1) : q[j].tag # tag

Without(q, k) ==
    SubSeq(q, 1, k - 1) \o SubSeq(q, k + 1, Len(q))

\* the queue after the messages with the given tags were received, in order
RECURSIVE AfterRecv(_, _)
AfterRecv(q, tags) ==
    IF tags = << >> THEN q
    ELSE AfterRecv(Without(q, FirstWith(q, Head(tags))), Tail(tags))

\* whether receives of the given tags, in order, all find their message
RECURSIVE CanRecv(_, _)
CanRecv(q, tags) ==
    IF tags = << >> THEN TRUE
    ELSE /\ HasMsg(q, Head(tags))
         /\ CanRecv(Without(q, FirstWith(q, Head(tags))), Tail(tags))

\* the eight residual tags in the order of the sends and receives
ResidualTags ==
    [k \in 1 .. 8 |-> COMM_GDCONV1 + (k - 1)]

\* the eight residual messages of one worker, lines 1294-1301
ResidualMsgs(t, it) ==
    [k \in 1 .. 8 |-> Msg(ResidualTags[k], t[ParamOfTag(ResidualTags[k])], it)]

\* the tensors received by the eight receives of lines 1305-1312
ResidualRecvd(q) ==
    [p \in Params |-> q[FirstWith(q, ResidualTag(p))].val]

NoCall ==
    [state |-> "none"]

-----------------------------------------------------------------------------
(* TrainingContext::ForwardPropagation, lines 528-605.  The buffers hold   *)
(* terms: the operator that wrote the buffer and what it read.  m is the   *)
(* device memory the call's pointer arguments name: data, the activation   *)
(* buffers conv1 .. result, the eight weight tensors p, workspace, onevec. *)

\* the contents a device operator leaves in its destination
Term(op, a, b) ==
    [op |-> op, a |-> a, b |-> b]

\* the contents a one-operand device operator leaves in its destination
Term1(op, a) ==
    [op |-> op, a |-> a]

\* a weight tensor as an operand
Weight(v) ==
    [val |-> v]

\* a destination scaled by beta = 0 contributes nothing
Zero ==
    [op |-> "zero"]

\* d_onevec after launch_FillOnes (line 1179)
Ones ==
    [op |-> "ones"]

\* y := op(a, b) + c, the form of cublasSgemm and cudnnAddTensor
Term3(op, a, b, c) ==
    [op |-> op, a |-> a, b |-> b, c |-> c]

\* the call with the first convolution writing over its input as well
ForwardPropagationOverInput(m) ==
    LET \* Conv1 layer (lines 539-544)
        conv1a  == Term("cudnnConvolutionForward", m.data, Weight(m.p.conv1))
        conv1   == Term("cudnnAddTensor", Weight(m.p.conv1bias), conv1a)
        \* Pool1 layer (lines 547-548)
        pool1   == Term1("cudnnPoolingForward", conv1)
        \* Conv2 layer (lines 551-556)
        conv2a  == Term("cudnnConvolutionForward", pool1, Weight(m.p.conv2))
        conv2   == Term("cudnnAddTensor", Weight(m.p.conv2bias), conv2a)
        \* Pool2 layer (lines 559-560)
        pool2   == Term1("cudnnPoolingForward", conv2)
        \* FC1 layer (lines 564-578): fc1 = pfc1' * pool2, then += pfc1bias * 1'
        fc1a    == Term3("cublasSgemm", Weight(m.p.fc1), pool2, Zero)
        fc1     == Term3("cublasSgemm", Weight(m.p.fc1bias), m.onevec, fc1a)
        \* ReLU activation (lines 581-582)
        fc1relu == Term1("cudnnActivationForward", fc1)
        \* FC2 layer (lines 586-600)
        fc2a    == Term3("cublasSgemm", Weight(m.p.fc2), fc1relu, Zero)
        fc2     == Term3("cublasSgemm", Weight(m.p.fc2bias), m.onevec, fc2a)
        \* Softmax (lines 603-604)
        result  == Term1("cudnnSoftmaxForward", fc2)
    IN  [m EXCEPT !.data = conv1a, !.conv1 = conv1, !.pool1 = pool1,
                  !.conv2 = conv2, !.pool2 = pool2,
                  !.fc1 = fc1, !.fc1relu = fc1relu,
                  !.fc2 = fc2, !.result = result,
                  !.workspace = Term("workspace", pool1, Weight(m.p.conv2))]

ForwardPropagation(m) ==
    LET \* Conv1 layer (lines 539-544)
        conv1a  == Term("cudnnConvolutionForward", m.data, Weight(m.p.conv1))
        conv1   == Term("cudnnAddTensor", Weight(m.p.conv1bias), conv1a)
        \* Pool1 layer (lines 547-548)
        pool1   == Term1("cudnnPoolingForward", conv1)
        \* Conv2 layer (lines 551-556)
        conv2a  == Term("cudnnConvolutionForward", pool1, Weight(m.p.conv2))
        conv2   == Term("cudnnAddTensor", Weight(m.p.conv2bias), conv2a)
        \* Pool2 layer (lines 559-560)
        pool2   == Term1("cudnnPoolingForward", conv2)
        \* FC1 layer (lines 564-578): fc1 = pfc1' * pool2, then += pfc1bias * 1'
        fc1a    == Term3("cublasSgemm", Weight(m.p.fc1), pool2, Zero)
        fc1     == Term3("cublasSgemm", Weight(m.p.fc1bias), m.onevec, fc1a)
        \* ReLU activation (lines 581-582)
        fc1relu == Term1("cudnnActivationForward", fc1)
        \* FC2 layer (lines 586-600)
        fc2a    == Term3("cublasSgemm", Weight(m.p.fc2), fc1relu, Zero)
        fc2     == Term3("cublasSgemm", Weight(m.p.fc2bias), m.onevec, fc2a)
        \* Softmax (lines 603-604)
        result  == Term1("cudnnSoftmaxForward", fc2)
    IN  [m EXCEPT !.conv1 = conv1, !.pool1 = pool1,
                  !.conv2 = conv2, !.pool2 = pool2,
                  !.fc1 = fc1, !.fc1relu = fc1relu,
                  !.fc2 = fc2, !.result = result,
                  !.workspace = Term("workspace", pool1, Weight(m.p.conv2))]

\* the activation buffers and the workspace, allocated and never written
NoActivations ==
    [conv1 |-> Uninit, pool1 |-> Uninit, conv2 |-> Uninit, pool2 |-> Uninit,
     fc1 |-> Uninit, fc1relu |-> Uninit, fc2 |-> Uninit, result |-> Uninit,
     workspace |-> Uninit]

\* the device memory named by the arguments of a ForwardPropagation call of
\* main (lines 1221-1223, 1389-1391)
DeviceMem(data, act, p) ==
    [data |-> data, p |-> p, onevec |-> Ones,
     conv1 |-> act.conv1, pool1 |-> act.pool1,
     conv2 |-> act.conv2, pool2 |-> act.pool2,
     fc1 |-> act.fc1, fc1relu |-> act.fc1relu,
     fc2 |-> act.fc2, result |-> act.result, workspace |-> act.workspace]

\* the activation buffers and the workspace as a call leaves them
Activations(m) ==
    [conv1 |-> m.conv1, pool1 |-> m.pool1, conv2 |-> m.conv2, pool2 |-> m.pool2,
     fc1 |-> m.fc1, fc1relu |-> m.fc1relu, fc2 |-> m.fc2, result |-> m.result,
     workspace |-> m.workspace]

\* test image i, normalised (lines 1381-1384)
TestImage(i) ==
    [kind |-> "test", mbid |-> i]

\* the classification loop, lines 1379-1408: every image is copied to d_data
\* and forward-propagated; the result is the device memory after the last
RECURSIVE EvaluationPass(_, _)
EvaluationPass(m, images) ==
    IF images = << >> THEN m
    ELSE EvaluationPass(ForwardPropagation([m EXCEPT !.data = Head(images)]),
                        Tail(images))

-----------------------------------------------------------------------------
(* The state at line 1190: networks created and copied to the device       *)

InitFrame(W) ==
    /\ iter = [r \in Procs |-> 0]
    /\ idx = [r \in Procs |-> 1]
    /\ exitStatus = [r \in Procs |-> -1]
    /\ hostW = W
    /\ d_p = W
    /\ d_gp = W
    /\ d_gdp = [r \in Procs |-> Uninit]
    /\ d_g = [r \in Procs |-> Uninit]
    /\ h_gp = [r \in Procs |-> Uninit]
    /\ h_gdp = [r \in Procs |-> Uninit]
    /\ mBatch = [r \in Procs |-> [img |-> NoBatch, lab |-> NoBatch]]
    /\ d_batch = [r \in Procs |-> [data |-> NoBatch, labels |-> NoBatch]]
    /\ learningRate = [r \in Procs |-> 0]
    /\ rho = [r \in Procs |-> 0]
    /\ bcast = [r \in Procs |-> << >>]
    /\ fanoutSent = [r \in Procs |-> 0]
    /\ residRecvd = [r \in Procs |-> 0]
    /\ devBefore = Uninit
    /\ dLog = [r \in Procs |-> << >>]
    /\ pLog = [r \in Procs |-> << >>]
    /\ fpLog = [r \in Procs |-> << >>]
    /\ steps = [r \in Procs |-> << >>]
    /\ sentLog = [r \in Procs |-> << >>]
    /\ gLog = << >>
    /\ d_act = [r \in Procs |-> NoActivations]
    /\ dataset = [r \in Procs |-> Uninit]

InitMain(W) ==
    /\ pc = [r \in Procs |-> "loop"]
    /\ InitFrame(W)

Init ==
    /\ \E W \in [Procs -> InitWeights] : InitMain(W)
    /\ chan = [e \in Procs \X Procs |-> << >>]
    /\ call = NoCall

\* FatalError with the exit before the device reset
TeardownExitFirst ==
    << "log", "exit", "reset" >>

\* what FatalError does, in order: the message with file and line goes to
\* std::cerr (lines 82-85), cudaDeviceReset() (line 86), exit (line 87)
Teardown ==
    << "log", "reset", "exit" >>

\* FatalError: cudaDeviceReset(); exit(1)   (lines 81-88); the caller adds
\* Teardown to the steps of the process
FatalError(r) ==
    /\ pc' = [pc EXCEPT ![r] = "aborted"]
    /\ exitStatus' = [exitStatus EXCEPT ![r] = 1]

-----------------------------------------------------------------------------
(* main, the training loop (lines 1191-1332), one action per block.  Every *)
(* process runs the same code; the branches on rank are inside the blocks. *)

\* line 1191: the loop test, and the entry of the fan-out loop
Loop(r) ==
    /\ pc[r] = "loop"
    /\ IF iter[r] < MaxIter
       THEN /\ pc' = [pc EXCEPT ![r] = "fanout"]
            /\ idx' = [idx EXCEPT ![r] = 1]
            /\ IF r = 0
               THEN /\ fanoutSent' = [w \in Procs |-> 0]
                    /\ residRecvd' = [w \in Procs |-> 0]
               ELSE UNCHANGED << fanoutSent, residRecvd >>
       ELSE /\ pc' = [pc EXCEPT ![r] = "trained"]
            /\ UNCHANGED << idx, fanoutSent, residRecvd >>
    /\ UNCHANGED << iter, exitStatus, hostW, d_p, d_gp, d_gdp, d_g, h_gp, h_gdp,
                    mBatch, d_batch, d_act, learningRate, rho, chan, bcast,
                    devBefore, dLog, pLog, fpLog, steps, sentLog, gLog, call, dataset >>

\* lines 1195-1208: one step of for(i = 1; i <= rank; i++)
Fanout(r) ==
    /\ pc[r] = "fanout"
    /\ IF idx[r] <= r
       THEN \E rand_mbid \in 0 .. (NumMBatch - 1) :
              LET i == idx[r]
                  sent ==
                    IF r = 0
                    THEN [chan EXCEPT ![<< 0, i >>] =
                            @ \o << Msg(COMM_XDATA, ImgSlice(rand_mbid), iter[r]),
                                    Msg(COMM_XLABEL, LabSlice(rand_mbid), iter[r]) >>]
                    ELSE chan
                  q == sent[<< 0, r >>]
              IN  /\ IF r = i
                     THEN /\ CanRecv(q, << COMM_XDATA, COMM_XLABEL >>)
                          /\ mBatch' = [mBatch EXCEPT ![r] =
                                [img |-> q[FirstWith(q, COMM_XDATA)].val,
                                 lab |-> q[FirstWith(q, COMM_XLABEL)].val]]
                          /\ chan' = [sent EXCEPT ![<< 0, r >>] =
                                AfterRecv(q, << COMM_XDATA, COMM_XLABEL >>)]
                          /\ steps' = [steps EXCEPT ![r] = Append(@, "recv")]
                     ELSE /\ chan' = sent
                          /\ UNCHANGED << mBatch, steps >>
                  /\ fanoutSent' = IF r = 0
                                   THEN [fanoutSent EXCEPT ![i] = @ + 1]
                                   ELSE fanoutSent
                  /\ idx' = [idx EXCEPT ![r] = i + 1]
                  /\ UNCHANGED pc
       ELSE /\ pc' = [pc EXCEPT ![r] = "compute"]
            /\ UNCHANGED << idx, chan, mBatch, fanoutSent, steps >>
    /\ UNCHANGED << iter, exitStatus, hostW, d_p, d_gp, d_gdp, d_g, h_gp, h_gdp,
                    d_batch, d_act, learningRate, rho, bcast,
                    residRecvd, devBefore, dLog, pLog, fpLog, sentLog, gLog,
                    call, dataset >>

\* the calls with the global weights in place of the local ones
FPWeightsGlobal(r) ==
    d_gp[r]

\* the weight arguments of the ForwardPropagation calls of main
\* (d_pconv1 .. d_pfc2bias, lines 1222 and 1390-1391)
FPWeights(r) ==
    d_p[r]

\* lines 1212-1231: batch to the device, ForwardPropagation, Backpropagation.
\* Both copies read from the address of a pointer variable
\* (&train_images_mBatch_float, &train_labels_float), not from the buffer:
\* the read runs over main's frame and either faults or delivers its bytes.
Compute(r) ==
    /\ pc[r] = "compute"
    /\ IF r # 0
       THEN \/ LET m == ForwardPropagation(
                            DeviceMem(StackBytes, d_act[r], FPWeights(r)))
               IN  /\ d_batch' = [d_batch EXCEPT ![r] =
                                     [data |-> m.data, labels |-> StackBytes]]
                   /\ d_act' = [d_act EXCEPT ![r] = Activations(m)]
                   /\ d_p' = [d_p EXCEPT ![r] = m.p]
                   /\ fpLog' = [fpLog EXCEPT ![r] = Append(@, FPWeights(r))]
                   /\ steps' = [steps EXCEPT ![r] = @ \o << "fp", "bp" >>]
                   /\ \E grads \in Gradients : d_g' = [d_g EXCEPT ![r] = grads]
                   /\ pc' = [pc EXCEPT ![r] = "copyglobal"]
                   /\ UNCHANGED exitStatus
            \/ /\ FatalError(r)
               /\ steps' = [steps EXCEPT ![r] = @ \o Teardown]
               /\ UNCHANGED << d_batch, d_act, d_p, d_g, fpLog >>
       ELSE /\ pc' = [pc EXCEPT ![r] = "copyglobal"]
            /\ UNCHANGED << d_batch, d_act, d_p, d_g, fpLog, steps,
                            exitStatus >>
    /\ UNCHANGED << iter, idx, hostW, d_gp, d_gdp, h_gp, h_gdp,
                    mBatch, learningRate, rho, chan, bcast,
                    fanoutSent, residRecvd, devBefore, dLog, pLog,
                    sentLog, gLog, call, dataset >>

\* lines 1233-1243: cudaMemcpy(d_gp*, h_gp*, size, cudaMemcpyDeviceToHost).
\* Destination and source contradict the direction: the call either fails
\* (checkCudaErrors aborts) or copies as the pointers say, host to device.
\* In no outcome is the host buffer written.
CopyGlobal(r) ==
    /\ pc[r] = "copyglobal"
    /\ IF r = 0
       THEN /\ devBefore' = d_gp[r]
            /\ \/ \E junk \in Garbage :
                     /\ h_gp' = [h_gp EXCEPT ![r] = Resolve(@, junk)]
                     /\ d_gp' = [d_gp EXCEPT ![r] = h_gp'[r]]
                     /\ pc' = [pc EXCEPT ![r] = "bcast"]
                     /\ UNCHANGED << exitStatus, steps >>
               \/ /\ FatalError(r)
                  /\ steps' = [steps EXCEPT ![r] = @ \o Teardown]
                  /\ UNCHANGED << h_gp, d_gp >>
       ELSE /\ pc' = [pc EXCEPT ![r] = "bcast"]
            /\ UNCHANGED << h_gp, d_gp, devBefore, exitStatus, steps >>
    /\ UNCHANGED << iter, idx, hostW, d_p, d_gdp, d_g, h_gdp,
                    mBatch, d_batch, d_act, learningRate, rho, chan, bcast,
                    fanoutSent, residRecvd, dLog, pLog, fpLog,
                    sentLog, gLog, call, dataset >>

\* lines 1245-1254: the eight MPI_Bcast of h_gp* from root 0.  The root's
\* call returns once its buffer is handed over; a receiver's call returns
\* when the root's data has arrived.
Bcast(r) ==
    /\ pc[r] = "bcast"
    /\ IF r = 0
       THEN \E junk \in Garbage :
              /\ h_gp' = [h_gp EXCEPT ![r] = Resolve(@, junk)]
              /\ bcast' = [w \in Procs |->
                             IF w = 0 THEN bcast[w]
                             ELSE Append(bcast[w], h_gp'[r])]
       ELSE /\ bcast[r] # << >>
            /\ h_gp' = [h_gp EXCEPT ![r] = Head(bcast[r])]
            /\ bcast' = [bcast EXCEPT ![r] = Tail(@)]
    /\ pc' = [pc EXCEPT ![r] = "update"]
    /\ steps' = [steps EXCEPT ![r] = Append(@, "bcast")]
    /\ UNCHANGED << iter, idx, exitStatus, hostW, d_p, d_gp, d_gdp, d_g, h_gdp,
                    mBatch, d_batch, d_act, learningRate, rho, chan,
                    fanoutSent, residRecvd, devBefore, dLog, pLog, fpLog,
                    sentLog, gLog, call, dataset >>

\* lines 1256-1289: learning rate and rho; on a worker the global weights go
\* to the device, UpdateLocalWeights runs, and the residual copy
\* cudaMemcpy(d_gdp*, h_gdp*, size, cudaMemcpyDeviceToHost) follows, which
\* fails or copies host to device as in CopyGlobal.
LocalUpdate(r) ==
    /\ pc[r] = "update"
    /\ learningRate' = [learningRate EXCEPT ![r] = LearningRate(iter[r])]
    /\ rho' = [rho EXCEPT ![r] = RhoValue]
    /\ IF r # 0
       THEN \E junkd \in Garbage, junkg \in Garbage :
              LET out == UpdateLocalWeights(learningRate'[r], rho'[r],
                             h_gp[r], Resolve(d_gdp[r], junkd),
                             d_p[r], Resolve(d_g[r], junkg))
              IN  /\ d_gp' = [d_gp EXCEPT ![r] = h_gp[r]]
                  /\ d_p' = [d_p EXCEPT ![r] = out.p]
                  /\ d_g' = [d_g EXCEPT ![r] = out.g]
                  /\ dLog' = [dLog EXCEPT ![r] = Append(@, out.gdp)]
                  /\ pLog' = [pLog EXCEPT ![r] = Append(@, out.p)]
                  /\ UNCHANGED gLog
                  /\ \/ \E junkh \in Garbage :
                           /\ h_gdp' = [h_gdp EXCEPT ![r] = Resolve(@, junkh)]
                           /\ d_gdp' = [d_gdp EXCEPT ![r] = h_gdp'[r]]
                           /\ steps' = [steps EXCEPT ![r] = Append(@, "ulw")]
                           /\ pc' = [pc EXCEPT ![r] = "collect"]
                           /\ UNCHANGED exitStatus
                     \/ /\ FatalError(r)
                        /\ steps' = [steps EXCEPT ![r] =
                                        Append(@, "ulw") \o Teardown]
                        /\ d_gdp' = [d_gdp EXCEPT ![r] = out.gdp]
                        /\ UNCHANGED h_gdp
       ELSE /\ pc' = [pc EXCEPT ![r] = "collect"]
            /\ gLog' = Append(gLog, [before |-> d_gp[r], after |-> d_gp[r],
                                     learningRate |-> learningRate'[r],
                                     calls |-> 0])
            /\ UNCHANGED << d_gp, d_p, d_g, d_gdp, h_gdp, dLog, pLog, steps,
                            exitStatus >>
    /\ idx' = [idx EXCEPT ![r] = 1]
    /\ UNCHANGED << iter, hostW, h_gp, mBatch, d_batch, d_act, chan, bcast,
                    fanoutSent, residRecvd, devBefore, fpLog, sentLog, call, dataset >>

\* lines 1291-1330: one step of for(i = 1; i <= rank; i++), and line 1332
Collect(r) ==
    /\ pc[r] = "collect"
    /\ IF idx[r] <= r
       THEN \E junk \in Garbage :
              LET i == idx[r]
                  mine == Resolve(h_gdp[r], junk)
                  sent ==
                    IF r = i
                    THEN [chan EXCEPT ![<< r, 0 >>] =
                            @ \o ResidualMsgs(mine, iter[r])]
                    ELSE chan
                  q == sent[<< i, 0 >>]
              IN  /\ IF r = 0
                     THEN /\ CanRecv(q, ResidualTags)
                          /\ h_gdp' = [h_gdp EXCEPT ![r] = ResidualRecvd(q)]
                          /\ d_gdp' = [d_gdp EXCEPT ![r] = h_gdp'[r]]
                          /\ d_gp' = [d_gp EXCEPT ![r] =
                                UpdateGlobalWeights(learningRate[r], @, d_gdp'[r])]
                          /\ chan' = [sent EXCEPT ![<< i, 0 >>] =
                                AfterRecv(q, ResidualTags)]
                          /\ residRecvd' = [residRecvd EXCEPT ![i] = @ + 1]
                          /\ gLog' = [gLog EXCEPT ![Len(gLog)] =
                                [@ EXCEPT !.after = d_gp'[r],
                                          !.calls = @ + 1]]
                          /\ UNCHANGED << steps, sentLog >>
                     ELSE /\ chan' = sent
                          /\ h_gdp' = [h_gdp EXCEPT ![r] =
                                IF r = i THEN mine ELSE @]
                          /\ steps' = [steps EXCEPT ![r] =
                                IF r = i THEN Append(@, "send") ELSE @]
                          /\ sentLog' = [sentLog EXCEPT ![r] =
                                IF r = i THEN Append(@, mine) ELSE @]
                          /\ UNCHANGED << d_gdp, d_gp, residRecvd, gLog >>
                  /\ idx' = [idx EXCEPT ![r] = i + 1]
                  /\ UNCHANGED << pc, iter >>
       ELSE /\ iter' = [iter EXCEPT ![r] = @ + 1]
            /\ pc' = [pc EXCEPT ![r] = "loop"]
            /\ UNCHANGED << idx, chan, h_gdp, d_gdp, d_gp, residRecvd,
                            steps, sentLog, gLog >>
    /\ UNCHANGED << exitStatus, hostW, d_p, d_g, h_gp, mBatch, d_batch, d_act,
                    learningRate, rho, bcast, fanoutSent, devBefore, dLog,
                    pLog, fpLog, call, dataset >>

\* lines 1338-1356: with FLAGS_save_data the local weights are copied to the
\* host and the four layers are written; ToFile exits with status 2 when a
\* file cannot be opened (lines 229, 239, 305, 315)
Save(r) ==
    /\ pc[r] = "trained"
    /\ \E save_data \in BOOLEAN :
         IF save_data
         THEN /\ hostW' = [hostW EXCEPT ![r] = d_p[r]]
              /\ \/ /\ pc' = [pc EXCEPT ![r] = "saved"]
                    /\ UNCHANGED exitStatus
                 \/ /\ pc' = [pc EXCEPT ![r] = "exited"]
                    /\ exitStatus' = [exitStatus EXCEPT ![r] = 2]
         ELSE /\ pc' = [pc EXCEPT ![r] = "saved"]
              /\ UNCHANGED << hostW, exitStatus >>
    /\ UNCHANGED << iter, idx, d_p, d_gp, d_gdp, d_g, h_gp, h_gdp,
                    mBatch, d_batch, d_act, learningRate, rho, chan, bcast,
                    fanoutSent, residRecvd, devBefore, dLog, pLog, fpLog, steps,
                    sentLog, gLog, call, dataset >>

\* what test_images holds: the test set on rank 0, which read it (lines
\* 939-951); on a worker the vector is empty and test_size was never set, so
\* the reads of line 1384 run outside the vector: they deliver the bytes
\* found there or the process is killed (SIGSEGV)
TestImages(r, classifications) ==
    [i \in 1 .. classifications |->
        IF r = 0 THEN TestImage(i - 1) ELSE StackBytes]

\* lines 1359-1449: the classification loop with test_context, then the
\* buffers are freed and main returns 0
Evaluate(r) ==
    /\ pc[r] = "saved"
    /\ \E classifications \in 0 .. MaxClassify :
         LET m == EvaluationPass(
                      DeviceMem(d_batch[r].data, d_act[r], FPWeights(r)),
                      TestImages(r, classifications))
         IN  /\ d_batch' = [d_batch EXCEPT ![r].data = m.data]
             /\ d_act' = [d_act EXCEPT ![r] = Activations(m)]
             /\ d_p' = [d_p EXCEPT ![r] = m.p]
             /\ fpLog' = [fpLog EXCEPT ![r] =
                            IF classifications > 0
                            THEN Append(@, FPWeights(r)) ELSE @]
             /\ steps' = [steps EXCEPT ![r] =
                            IF classifications > 0
                            THEN Append(@, "classify") ELSE @]
             /\ \/ /\ pc' = [pc EXCEPT ![r] = "done"]
                   /\ exitStatus' = [exitStatus EXCEPT ![r] = 0]
                \/ /\ r # 0 /\ classifications > 0
                   /\ pc' = [pc EXCEPT ![r] = "killed"]
                   /\ exitStatus' = [exitStatus EXCEPT ![r] = 128 + 11]
    /\ UNCHANGED << iter, idx, hostW, d_gp, d_gdp, d_g, h_gp, h_gdp,
                    mBatch, learningRate, rho, chan, bcast,
                    fanoutSent, residRecvd, devBefore, dLog, pLog,
                    sentLog, gLog, call, dataset >>

Next ==
    \E r \in Procs :
        \/ Loop(r)
        \/ Fanout(r)
        \/ Compute(r)
        \/ CopyGlobal(r)
        \/ Bcast(r)
        \/ LocalUpdate(r)
        \/ Collect(r)
        \/ Save(r)
        \/ Evaluate(r)

\* the program as written
Spec ==
    Init /\ [][Next]_vars

\* the steps of one process
ProcStep(r) ==
    \/ Loop(r)
    \/ Fanout(r)
    \/ Compute(r)
    \/ CopyGlobal(r)
    \/ Bcast(r)
    \/ LocalUpdate(r)
    \/ Collect(r)
    \/ Save(r)
    \/ Evaluate(r)

\* every process is a running program: it takes its next step when it can
FairSpec ==
    Spec /\ \A r \in Procs : WF_vars(ProcStep(r))

-----------------------------------------------------------------------------
(* The worker's code behind the receive of lines 1205-1206.  Rank 0 never  *)
(* executes the sends of lines 1199-1201 (its loop bound is its own rank), *)
(* so under Spec no worker passes that receive.  SpecServed runs the same  *)
(* program with the batch messages of the documented fan-out already in    *)
(* the channel of one worker: one (COMM_XDATA, COMM_XLABEL) pair for each  *)
(* of its first ServedIters iterations.                                    *)

ServedBatches(b) ==
    [k \in 1 .. (2 * ServedIters) |->
        IF k % 2 = 1
        THEN Msg(COMM_XDATA, ImgSlice(b), (k - 1) \div 2)
        ELSE Msg(COMM_XLABEL, LabSlice(b), (k - 1) \div 2)]

InitServed ==
    /\ \E W \in [Procs -> InitWeights] : InitMain(W)
    /\ \E b \in 0 .. (NumMBatch - 1), w \in Workers :
         chan = [e \in Procs \X Procs |->
                   IF e = << 0, w >> THEN ServedBatches(b) ELSE << >>]
    /\ call = NoCall

SpecServed ==
    InitServed /\ [][Next]_vars

-----------------------------------------------------------------------------
(* The training loop with MPI transfers that may fail.  The calls of       *)
(* lines 1199-1206 (fan-out), 1246-1253 (broadcast) and 1294-1312          *)
(* (collection) either proceed as in Next or fail.                         *)

\* MPI_COMM_WORLD with an error handler that returns the error code
ErrorHandlerReturn ==
    "MPI_ERRORS_RETURN"

\* the error handler of MPI_COMM_WORLD: main installs none after MPI_Init
\* (lines 904-917), so it is the initial one, which ends the program
ErrorHandler ==
    "MPI_ERRORS_ARE_FATAL"

\* the exit status the MPI library gives to a process it ends
AbortCodes ==
    {1, 16}

\* an MPI_Send, MPI_Recv or MPI_Bcast of process r fails.  The handler ends
\* the process; were the call to return, main would go on at next, since no
\* return value of an MPI call is read (lines 1199-1206, 1246-1253,
\* 1294-1312).  The library ends the other processes of the run as well;
\* here they are left to run on.
TransferFails(r, next) ==
    /\ steps' = [steps EXCEPT ![r] = Append(@, "mpi_error")]
    /\ IF ErrorHandler = "MPI_ERRORS_ARE_FATAL"
       THEN /\ pc' = [pc EXCEPT ![r] = "mpiabort"]
            /\ \E code \in AbortCodes :
                 exitStatus' = [exitStatus EXCEPT ![r] = code]
       ELSE /\ pc' = [pc EXCEPT ![r] = next]
            /\ UNCHANGED exitStatus

\* the call process r is about to make is an MPI transfer, and it fails
TransferFailure(r) ==
    /\ \/ /\ pc[r] \in {"fanout", "collect"}
          /\ idx[r] <= r
          /\ r = 0 \/ r = idx[r]
          /\ TransferFails(r, pc[r])
          /\ idx' = [idx EXCEPT ![r] = @ + 1]
       \/ /\ pc[r] = "bcast"
          /\ TransferFails(r, "update")
          /\ UNCHANGED idx
    /\ UNCHANGED << iter, hostW, d_p, d_gp, d_gdp, d_g, h_gp, h_gdp,
                    mBatch, d_batch, d_act, learningRate, rho, chan, bcast,
                    fanoutSent, residRecvd, devBefore, dLog, pLog, fpLog,
                    sentLog, gLog, dataset, call >>

\* one set of initial weights, one worker served as in SpecServed
InitFaulty ==
    /\ InitMain([r \in Procs |-> Fill(1)])
    /\ \E b \in 0 .. (NumMBatch - 1), w \in Workers :
         chan = [e \in Procs \X Procs |->
                   IF e = << 0, w >> THEN ServedBatches(b) ELSE << >>]
    /\ call = NoCall

NextFaulty ==
    \/ Next
    \/ \E r \in Procs : TransferFailure(r)

SpecFaulty ==
    InitFaulty /\ [][NextFaulty]_vars

-----------------------------------------------------------------------------
(* UpdateLocalWeights as a function: one call on arguments drawn from      *)
(* bounded sets.                                                           *)

\* contents of the tensor sets passed to the call
TensorIn ==
    {Fill(0), Fill(1), Ramp(1), Ramp(-2)}

\* learning rates passed to the call
Rates ==
    {1, 2}

\* penalty coefficients passed to the call
Rhos ==
    {0, 1, RhoValue}

InitULW ==
    /\ InitMain([r \in Procs |-> Fill(1)])
    /\ chan = [e \in Procs \X Procs |-> << >>]
    /\ \E lr \in Rates, rh \in Rhos,
          gp \in TensorIn, gdp \in TensorIn, p \in TensorIn, g \in TensorIn :
         LET args == [gp |-> gp, gdp |-> gdp, p |-> p, g |-> g]
         IN  call = [state |-> "ready", learning_rate |-> lr, rho |-> rh,
                     args |-> args, out |-> args]

CallUpdateLocalWeights ==
    /\ call.state = "ready"
    /\ call' = [call EXCEPT
                  !.state = "returned",
                  !.out = UpdateLocalWeights(call.learning_rate, call.rho,
                              call.args.gp, call.args.gdp,
                              call.args.p, call.args.g)]
    /\ UNCHANGED mainVars
    /\ UNCHANGED chan

NextULW ==
    CallUpdateLocalWeights

SpecULW ==
    InitULW /\ [][NextULW]_vars

-----------------------------------------------------------------------------
(* ForwardPropagation and the classification loop as functions: one call   *)
(* on device memory drawn from bounded sets.                               *)

\* contents of d_data before the call
DataIn ==
    {ImgSlice(0), ImgSlice(1), StackBytes, NoBatch}

\* contents of the activation buffers before the call: never written, or
\* left by an earlier call
ActivationsIn ==
    {NoActivations,
     Activations(ForwardPropagation(DeviceMem(ImgSlice(0), NoActivations, Fill(1))))}

InitFP ==
    /\ InitMain([r \in Procs |-> Fill(1)])
    /\ chan = [e \in Procs \X Procs |-> << >>]
    /\ \E data \in DataIn, act \in ActivationsIn, p \in TensorIn,
          n \in 0 .. MaxClassify, fn \in {"ForwardPropagation", "EvaluationPass"} :
         /\ fn = "ForwardPropagation" => n = 0
         /\ call = [state |-> "ready", fn |-> fn,
                    args |-> DeviceMem(data, act, p),
                    images |-> TestImages(0, n),
                    out |-> DeviceMem(data, act, p)]

CallForwardPropagation ==
    /\ call.state = "ready"
    /\ call.fn = "ForwardPropagation"
    /\ call' = [call EXCEPT !.state = "returned",
                            !.out = ForwardPropagation(call.args)]
    /\ UNCHANGED mainVars

CallEvaluationPass ==
    /\ call.state = "ready"
    /\ call.fn = "EvaluationPass"
    /\ call' = [call EXCEPT !.state = "returned",
                            !.out = EvaluationPass(call.args, call.images)]
    /\ UNCHANGED mainVars

NextFP ==
    \/ CallForwardPropagation
    \/ CallEvaluationPass

SpecFP ==
    InitFP /\ [][NextFP]_vars

-----------------------------------------------------------------------------
(* TrainingContext::Backpropagation, lines 657-670: the loss gradient with *)
(* respect to the logits, dloss_data, which every layer gradient is        *)
(* computed from.  Buffers are flat: element c of sample s is at           *)
(* s * outputs + c (from 0; sequences count from 1).  Values are fractions *)
(* num / den.                                                              *)

Frac(num, den) ==
    [num |-> num, den |-> den]

\* launch_SoftmaxLossBackprop: 1 is subtracted at each sample's label index
SoftmaxLossBackprop(label, num_labels, batch_size, diff) ==
    [k \in DOMAIN diff |->
        IF \E smp \in 0 .. (batch_size - 1) :
              k - 1 = smp * num_labels + label[smp + 1]
        THEN Frac(diff[k].num - diff[k].den, diff[k].den)
        ELSE diff[k]]

\* cublasSscal(handle, n, &alpha, x, 1): the first n elements times alpha
Sscal(n, alpha, x) ==
    [k \in DOMAIN x |->
        IF k <= n THEN Frac(alpha.num * x[k].num, alpha.den * x[k].den)
        ELSE x[k]]

\* the call with the scaling issued for one sample's elements only
BackpropagationScaleOne(fc2smax, labels, outputs, m_batchSize) ==
    LET scalVal == Frac(1, m_batchSize)
        dloss_data == [k \in 1 .. (m_batchSize * outputs) |-> fc2smax[k]]
        diff == SoftmaxLossBackprop(labels, outputs, m_batchSize, dloss_data)
    IN  [dloss_data |-> Sscal(outputs, scalVal, diff)]

Backpropagation(fc2smax, labels, outputs, m_batchSize) ==
    LET scalVal == Frac(1, m_batchSize)
        \* line 664: the softmax output is copied
        dloss_data == [k \in 1 .. (m_batchSize * outputs) |-> fc2smax[k]]
        \* line 667
        diff == SoftmaxLossBackprop(labels, outputs, m_batchSize, dloss_data)
        \* line 670
    IN  [dloss_data |-> Sscal(outputs * m_batchSize, scalVal, diff)]

\* softmax outputs passed to the call (stand-ins for probabilities)
SoftmaxIn ==
    {Frac(1, 1), Frac(2, 1)}

InitBP ==
    /\ InitMain([r \in Procs |-> Fill(1)])
    /\ chan = [e \in Procs \X Procs |-> << >>]
    /\ \E m_batchSize \in 1 .. MaxBatchSize :
         \E fc2smax \in [1 .. (m_batchSize * NumOutputs) -> SoftmaxIn],
            labels \in [1 .. m_batchSize -> 0 .. (NumOutputs - 1)] :
           call = [state |-> "ready", fn |-> "Backpropagation",
                   fc2smax |-> fc2smax, labels |-> labels,
                   m_batchSize |-> m_batchSize, out |-> << >>]

CallBackpropagation ==
    /\ call.state = "ready"
    /\ call.fn = "Backpropagation"
    /\ call' = [call EXCEPT
                  !.state = "returned",
                  !.out = Backpropagation(call.fc2smax, call.labels,
                              NumOutputs, call.m_batchSize).dloss_data]
    /\ UNCHANGED mainVars

NextBP ==
    CallBackpropagation

SpecBP ==
    InitBP /\ [][NextBP]_vars

-----------------------------------------------------------------------------
(* The network's shapes: the layer descriptors (lines 177-188, 990-996),   *)
(* the tensor descriptors of TrainingContext (lines 384-428, 457-507) and  *)
(* the activation buffers main allocates (lines 1052-1057).                *)

\* C++ integer division (truncation towards zero)
IntDiv(a, b) ==
    IF a >= 0 THEN a \div b ELSE -((-a) \div b)

\* the constructor with the output one short
ConvBiasLayerShort(in_channels_, out_channels_, kernel_size_, in_w_, in_h_) ==
    [in_channels |-> in_channels_, out_channels |-> out_channels_,
     kernel_size |-> kernel_size_, in_width |-> in_w_, in_height |-> in_h_,
     out_width |-> in_w_ - kernel_size_,
     out_height |-> in_h_ - kernel_size_]

ConvBiasLayer(in_channels_, out_channels_, kernel_size_, in_w_, in_h_) ==
    [in_channels |-> in_channels_, out_channels |-> out_channels_,
     kernel_size |-> kernel_size_, in_width |-> in_w_, in_height |-> in_h_,
     out_width |-> in_w_ - kernel_size_ + 1,
     out_height |-> in_h_ - kernel_size_ + 1]

MaxPoolLayer(size_, stride_) ==
    [size |-> size_, stride |-> stride_]

\* cudnnSetTensor4dDescriptor
Tensor4d(n, c, h, w) ==
    [n |-> n, c |-> c, h |-> h, w |-> w]

\* cudnnGetConvolution2dForwardOutputDim, one spatial dimension:
\* 1 + (in + 2 * pad - ((k - 1) * dilation + 1)) / stride
ForwardOutputDim(in_dim, k, pad, stride, dilation) ==
    1 + IntDiv(in_dim + 2 * pad - ((k - 1) * dilation + 1), stride)

\* SetFwdConvolutionTensors (lines 457-507): the source and the destination
\* tensor descriptor; the convolution descriptor has pad 0, stride 1,
\* dilation 1 (lines 483-488)
SetFwdConvolutionTensors(conv, m_batchSize) ==
    [src |-> Tensor4d(m_batchSize, conv.in_channels, conv.in_height, conv.in_width),
     dst |-> Tensor4d(m_batchSize, conv.out_channels,
                      ForwardOutputDim(conv.in_height, conv.kernel_size, 0, 1, 1),
                      ForwardOutputDim(conv.in_width, conv.kernel_size, 0, 1, 1))]

\* the tensor descriptors the constructor of TrainingContext sets
TrainingContext(batch_size, conv1, pool1, conv2, pool2) ==
    [dataTensor  |-> SetFwdConvolutionTensors(conv1, batch_size).src,
     conv1Tensor |-> SetFwdConvolutionTensors(conv1, batch_size).dst,
     pool1Tensor |-> SetFwdConvolutionTensors(conv2, batch_size).src,
     conv2Tensor |-> SetFwdConvolutionTensors(conv2, batch_size).dst,
     pool2Tensor |-> Tensor4d(batch_size, conv2.out_channels,
                              IntDiv(conv2.out_height, pool2.stride),
                              IntDiv(conv2.out_width, pool2.stride))]

\* main, lines 990-999 and 1052-1057, for an image of width x height and
\* the given kernel size and pooling strides (5 and 2, 2 in main): the
\* layers, the tensor descriptors, the element counts of the buffers
Network(width, height, kernel_size, stride1, stride2, batch_size) ==
    LET channels == 1
        conv1 == ConvBiasLayer(channels, 20, kernel_size, width, height)
        pool1 == MaxPoolLayer(2, stride1)
        conv2 == ConvBiasLayer(conv1.out_channels, 50, kernel_size,
                               IntDiv(conv1.out_width, pool1.stride),
                               IntDiv(conv1.out_height, pool1.stride))
        pool2 == MaxPoolLayer(2, stride2)
    IN  [conv1 |-> conv1, pool1 |-> pool1, conv2 |-> conv2, pool2 |-> pool2,
         \* line 994: the first argument of fc1's constructor
         fc1_inputs |-> IntDiv(conv2.out_channels * conv2.out_width
                                    * conv2.out_height,
                               pool2.stride * pool2.stride),
         context |-> TrainingContext(batch_size, conv1, pool1, conv2, pool2),
         d_conv1 |-> batch_size * conv1.out_channels
                        * conv1.out_height * conv1.out_width,
         d_pool1 |-> batch_size * conv1.out_channels
                        * IntDiv(conv1.out_height, pool1.stride)
                        * IntDiv(conv1.out_width, pool1.stride),
         d_conv2 |-> batch_size * conv2.out_channels
                        * conv2.out_height * conv2.out_width,
         d_pool2 |-> batch_size * conv2.out_channels
                        * IntDiv(conv2.out_height, pool2.stride)
                        * IntDiv(conv2.out_width, pool2.stride)]

\* image widths and heights
Dims ==
    (MaxDim - 3) .. MaxDim

KernelSizes ==
    {3, 5}

Strides ==
    {2, 3}

InitNet ==
    /\ InitMain([r \in Procs |-> Fill(1)])
    /\ chan = [e \in Procs \X Procs |-> << >>]
    /\ \E width \in Dims, height \in Dims, kernel_size \in KernelSizes,
          stride1 \in Strides, stride2 \in Strides,
          batch_size \in 1 .. MaxBatchSize :
         call = [state |-> "ready", fn |-> "Network",
                 width |-> width, height |-> height,
                 kernel_size |-> kernel_size,
                 stride1 |-> stride1, stride2 |-> stride2,
                 batch_size |-> batch_size, out |-> << >>]

CallNetwork ==
    /\ call.state = "ready"
    /\ call.fn = "Network"
    /\ call' = [call EXCEPT
                  !.state = "returned",
                  !.out = Network(call.width, call.height, call.kernel_size,
                                  call.stride1, call.stride2, call.batch_size)]
    /\ UNCHANGED mainVars

NextNet ==
    CallNetwork

SpecNet ==
    InitNet /\ [][NextNet]_vars

-----------------------------------------------------------------------------
(* The selection of a mini-batch, lines 1184 and 1196-1201.                *)

\* what rand() % num_mBatch evaluates to.  With num_mBatch = 0 the
\* remainder is undefined: the process is killed (SIGFPE), or the
\* expression yields some value
Remainder(rnd, num_mBatch) ==
    IF num_mBatch = 0
    THEN {[killed |-> TRUE, value |-> 0]}
            \cup {[killed |-> FALSE, value |-> v] : v \in 0 .. RandMax}
    ELSE {[killed |-> FALSE, value |-> rnd % num_mBatch]}

\* the outcomes of selecting a batch: the index, and the first element and
\* the number of elements of the image slice (in images) and of the label
\* slice handed to the two sends
SelectBatch(train_size, m_batchSize, rnd) ==
    LET num_mBatch == IntDiv(train_size, m_batchSize)
    IN  {[killed |-> o.killed, rand_mbid |-> o.value,
          images |-> [first |-> o.value * m_batchSize, count |-> m_batchSize],
          labels |-> [first |-> o.value * m_batchSize, count |-> m_batchSize]] :
            o \in Remainder(rnd, num_mBatch)}

\* batch sizes of a selection
BatchSizes ==
    1 .. (2 * MaxBatchSize)

InitSelect ==
    /\ InitMain([r \in Procs |-> Fill(1)])
    /\ chan = [e \in Procs \X Procs |-> << >>]
    /\ \E train_size \in 1 .. MaxTrainSize, m_batchSize \in BatchSizes,
          rnd \in 0 .. RandMax :
         call = [state |-> "ready", fn |-> "SelectBatch",
                 train_size |-> train_size, m_batchSize |-> m_batchSize,
                 rnd |-> rnd, out |-> << >>]

CallSelectBatch ==
    /\ call.state = "ready"
    /\ call.fn = "SelectBatch"
    /\ \E o \in SelectBatch(call.train_size, call.m_batchSize, call.rnd) :
         call' = [call EXCEPT !.state = "returned", !.out = o]
    /\ UNCHANGED mainVars

NextSelect ==
    CallSelectBatch

SpecSelect ==
    InitSelect /\ [][NextSelect]_vars

-----------------------------------------------------------------------------
(* The exit status of main as a function of what the process meets: the    *)
(* datasets (lines 932-952), the devices (lines 979-987), the backend      *)
(* calls behind checkCudaErrors / checkCUDNN, the files written by ToFile. *)
(* cause names the statement that ends the process.                        *)

Exit(status, cause) ==
    [status |-> status, cause |-> cause]

\* e.train_size, e.test_size: results of the two size reads (lines 938-939);
\* e.train_read, e.test_read: results of the two data reads (lines 949, 951);
\* e.device_count_ok: cudaGetDeviceCount succeeds; e.gpu: FLAGS_gpu;
\* e.backend_ok: every later backend call succeeds; e.save_data:
\* FLAGS_save_data; e.save_ok: every file of ToFile can be opened
MainStatus(rank, e) ==
    IF rank = 0 /\ e.train_size = 0 THEN Exit(1, "return 1")
    ELSE IF rank = 0 /\ e.train_read # e.train_size THEN Exit(2, "return 2")
    ELSE IF rank = 0 /\ e.test_read # e.test_size THEN Exit(3, "return 3")
    ELSE IF ~e.device_count_ok THEN Exit(1, "FatalError")
    ELSE IF e.gpu < 0 \/ e.gpu >= e.num_gpus THEN Exit(4, "return 4")
    ELSE IF ~e.backend_ok THEN Exit(1, "FatalError")
    ELSE IF e.save_data /\ ~e.save_ok THEN Exit(2, "ToFile")
    ELSE Exit(0, "return 0")

\* dataset sizes a read may return
Sizes ==
    {0, 1, 2}

\* what a process may meet
Environments ==
    [train_size : Sizes, test_size : {0, 2}, train_read : Sizes,
     test_read : Sizes, device_count_ok : BOOLEAN, gpu : {-1, 0, 1},
     num_gpus : {1}, backend_ok : BOOLEAN, save_data : BOOLEAN,
     save_ok : BOOLEAN]

InitExit ==
    /\ InitMain([r \in Procs |-> Fill(1)])
    /\ chan = [e \in Procs \X Procs |-> << >>]
    /\ \E rank \in {0, 1}, e \in Environments :
         call = [state |-> "ready", fn |-> "main", rank |-> rank,
                 env |-> e, out |-> << >>]

CallMain ==
    /\ call.state = "ready"
    /\ call.fn = "main"
    /\ call' = [call EXCEPT !.state = "returned",
                            !.out = MainStatus(call.rank, call.env)]
    /\ UNCHANGED mainVars

NextExit ==
    CallMain

SpecExit ==
    InitExit /\ [][NextExit]_vars

-----------------------------------------------------------------------------
(* main from the dataset reads to the device choice (lines 932-987), on    *)
(* every process.  Only rank 0 reads the datasets; the four MPI_Bcast of   *)
(* lines 974-977 carry height, width, train_size, train_images_size.  A    *)
(* process that leaves this part enters the network construction of line   *)
(* 990 (pc "network").                                                     *)

\* a size_t variable: its low and its high 32 bits
SizeT(lo, hi) ==
    [lo |-> lo, hi |-> hi]

\* MPI_Bcast(&v, 1, MPI_INT, 0, ...) on a receiver: one int of the root's
\* variable lands in the low half of v, the high half stays as it was
BcastInt(own, sent) ==
    [lo |-> sent.lo, hi |-> own.hi]

\* what a size_t declared without initialiser (line 927) may hold
SizeGarbage ==
    {SizeT(0, 0), SizeT(7, 1)}

\* the four dataset parameters of a process that never assigned them
DatasetGarbage ==
    [width : SizeGarbage, height : SizeGarbage, train_size : SizeGarbage,
     train_images_size : SizeGarbage]

\* width and height of the images of the dataset files
ImageDim ==
    2

\* results of the four calls of ReadUByteDataset on rank 0
DatasetReads ==
    [train_size : Sizes, test_size : {0, 2}, train_read : Sizes,
     test_read : Sizes]

\* the states of a process that has ended
Ended ==
    {"exited", "aborted", "mpiabort", "done", "killed"}

InitStart ==
    /\ pc = [r \in Procs |-> "read"]
    /\ InitFrame([r \in Procs |-> Uninit])
    /\ chan = [e \in Procs \X Procs |-> << >>]
    /\ \E e \in DatasetReads :
         call = [state |-> "none", fn |-> "main", env |-> e]

\* lines 932-970
ReadData(r) ==
    /\ pc[r] = "read"
    /\ IF r = 0
       THEN LET e == call.env
            IN  IF e.train_size = 0
                THEN /\ pc' = [pc EXCEPT ![r] = "exited"]
                     /\ exitStatus' = [exitStatus EXCEPT ![r] = 1]
                     /\ UNCHANGED dataset
                ELSE IF e.train_read # e.train_size
                THEN /\ pc' = [pc EXCEPT ![r] = "exited"]
                     /\ exitStatus' = [exitStatus EXCEPT ![r] = 2]
                     /\ UNCHANGED dataset
                ELSE IF e.test_read # e.test_size
                THEN /\ pc' = [pc EXCEPT ![r] = "exited"]
                     /\ exitStatus' = [exitStatus EXCEPT ![r] = 3]
                     /\ UNCHANGED dataset
                ELSE /\ pc' = [pc EXCEPT ![r] = "params"]
                     /\ dataset' = [dataset EXCEPT ![r] =
                           [width |-> SizeT(ImageDim, 0),
                            height |-> SizeT(ImageDim, 0),
                            train_size |-> SizeT(e.train_size, 0),
                            train_images_size |->
                                SizeT(e.train_size * ImageDim * ImageDim, 0)]]
                     /\ UNCHANGED exitStatus
       ELSE /\ pc' = [pc EXCEPT ![r] = "params"]
            /\ UNCHANGED << dataset, exitStatus >>
    /\ UNCHANGED << iter, idx, hostW, d_p, d_gp, d_gdp, d_g, h_gp, h_gdp,
                    mBatch, d_batch, d_act, learningRate, rho, chan, bcast,
                    fanoutSent, residRecvd, devBefore, dLog, pLog, fpLog,
                    steps, sentLog, gLog, call >>

\* lines 974-977: the root hands its four values over; a receiver's calls
\* return when the root's data has arrived
BcastParams(r) ==
    /\ pc[r] = "params"
    /\ IF r = 0
       THEN /\ bcast' = [w \in Procs |->
                           IF w = 0 THEN bcast[w]
                           ELSE Append(bcast[w], dataset[r])]
            /\ UNCHANGED dataset
       ELSE /\ bcast[r] # << >>
            /\ \E junk \in DatasetGarbage :
                 dataset' = [dataset EXCEPT ![r] =
                    [f \in DOMAIN junk |->
                        BcastInt(Resolve(dataset[r], junk)[f],
                                 Head(bcast[r])[f])]]
            /\ bcast' = [bcast EXCEPT ![r] = Tail(@)]
    /\ pc' = [pc EXCEPT ![r] = "gpu"]
    /\ UNCHANGED << iter, idx, exitStatus, hostW, d_p, d_gp, d_gdp, d_g, h_gp,
                    h_gdp, mBatch, d_batch, d_act, learningRate, rho, chan,
                    fanoutSent, residRecvd, devBefore, dLog, pLog, fpLog,
                    steps, sentLog, gLog, call >>

\* lines 979-987
ChooseGPU(r) ==
    /\ pc[r] = "gpu"
    /\ \/ /\ FatalError(r)
          /\ steps' = [steps EXCEPT ![r] = @ \o Teardown]
       \/ /\ pc' = [pc EXCEPT ![r] = "exited"]
          /\ exitStatus' = [exitStatus EXCEPT ![r] = 4]
          /\ UNCHANGED steps
       \/ /\ pc' = [pc EXCEPT ![r] = "network"]
          /\ UNCHANGED << exitStatus, steps >>
    /\ UNCHANGED << iter, idx, hostW, d_p, d_gp, d_gdp, d_g, h_gp, h_gdp,
                    mBatch, d_batch, d_act, learningRate, rho, chan, bcast,
                    fanoutSent, residRecvd, devBefore, dLog, pLog, fpLog,
                    sentLog, gLog, dataset, call >>

StartStep(r) ==
    \/ ReadData(r)
    \/ BcastParams(r)
    \/ ChooseGPU(r)

NextStart ==
    \E r \in Procs : StartStep(r)

SpecStart ==
    InitStart /\ [][NextStart]_vars

\* every process is a running program: it takes its next step when it can
FairSpecStart ==
    SpecStart /\ \A r \in Procs : WF_vars(StartStep(r))

-----------------------------------------------------------------------------
(* Weight files: ConvBiasLayer::FromFile / ToFile (lines 190-243) and      *)
(* FullyConnectedLayer::FromFile / ToFile (lines 266-319).  A vector is a  *)
(* sequence of elements, an element a value with its origin.  A file       *)
(* system maps a file name to a file; a file exists or not and holds a     *)
(* sequence of elements.                                                   *)

Elem(src, v) ==
    [src |-> src, v |-> v]

\* std::vector<float>(n): n elements, value-initialised
ZeroVec(n) ==
    [i \in 1 .. n |-> Elem("zero", 0)]

\* the vectors of a ConvBiasLayer (lines 178-179)
ConvVectors(in_channels_, out_channels_, kernel_size_) ==
    [in_channels |-> in_channels_, out_channels |-> out_channels_,
     kernel_size |-> kernel_size_,
     pconv |-> ZeroVec(in_channels_ * kernel_size_ * kernel_size_ * out_channels_),
     pbias |-> ZeroVec(out_channels_)]

\* FullyConnectedLayer (lines 263-264)
FullyConnectedLayer(inputs_, outputs_) ==
    [inputs |-> inputs_, outputs |-> outputs_,
     pneurons |-> ZeroVec(inputs_ * outputs_),
     pbias |-> ZeroVec(outputs_)]

NoFile ==
    [exists |-> FALSE, data |-> << >>]

FileOf(data) ==
    [exists |-> TRUE, data |-> data]

\* fileprefix << ".bin" and fileprefix << ".bias.bin"
WeightsName(fileprefix) ==
    << fileprefix, ".bin" >>

BiasName(fileprefix) ==
    << fileprefix, ".bias.bin" >>

\* fread(&vec[0], sizeof(float), count, fp) on a file just opened: the
\* first count elements of the file, as far as it has them, go to vec
Fread(vec, count, data) ==
    [i \in 1 .. Len(vec) |->
        IF i <= count /\ i <= Len(data) THEN data[i] ELSE vec[i]]

\* fwrite(&vec[0], sizeof(float), count, fp) on a file opened with "wb"
Fwrite(vec, count) ==
    SubSeq(vec, 1, count)

\* FromFile reading one kernel dimension short
ConvFromFileShort(layer, fileprefix, fs) ==
    IF ~fs[WeightsName(fileprefix)].exists
    THEN [ret |-> FALSE, layer |-> layer]
    ELSE LET read == [layer EXCEPT !.pconv =
                        Fread(@, layer.in_channels * layer.out_channels
                                    * layer.kernel_size,
                              fs[WeightsName(fileprefix)].data)]
         IN  IF ~fs[BiasName(fileprefix)].exists
             THEN [ret |-> FALSE, layer |-> read]
             ELSE [ret |-> TRUE,
                   layer |-> [read EXCEPT !.pbias =
                                Fread(@, layer.out_channels,
                                      fs[BiasName(fileprefix)].data)]]

\* ConvBiasLayer::FromFile, lines 190-216
ConvFromFile(layer, fileprefix, fs) ==
    IF ~fs[WeightsName(fileprefix)].exists
    THEN [ret |-> FALSE, layer |-> layer]
    ELSE LET read == [layer EXCEPT !.pconv =
                        Fread(@, layer.in_channels * layer.out_channels
                                    * layer.kernel_size * layer.kernel_size,
                              fs[WeightsName(fileprefix)].data)]
         IN  IF ~fs[BiasName(fileprefix)].exists
             THEN [ret |-> FALSE, layer |-> read]
             ELSE [ret |-> TRUE,
                   layer |-> [read EXCEPT !.pbias =
                                Fread(@, layer.out_channels,
                                      fs[BiasName(fileprefix)].data)]]

\* ConvBiasLayer::ToFile, lines 218-243; writable are the names fopen can
\* open for writing; exit is -1 when the call returns
ConvToFile(layer, fileprefix, fs, writable) ==
    IF WeightsName(fileprefix) \notin writable
    THEN [exit |-> 2, fs |-> fs]
    ELSE LET written == [fs EXCEPT ![WeightsName(fileprefix)] =
                            FileOf(Fwrite(layer.pconv,
                                layer.in_channels * layer.out_channels
                                    * layer.kernel_size * layer.kernel_size))]
         IN  IF BiasName(fileprefix) \notin writable
             THEN [exit |-> 2, fs |-> written]
             ELSE [exit |-> -1,
                   fs |-> [written EXCEPT ![BiasName(fileprefix)] =
                             FileOf(Fwrite(layer.pbias, layer.out_channels))]]

\* FullyConnectedLayer::FromFile, lines 266-292
FCFromFile(layer, fileprefix, fs) ==
    IF ~fs[WeightsName(fileprefix)].exists
    THEN [ret |-> FALSE, layer |-> layer]
    ELSE LET read == [layer EXCEPT !.pneurons =
                        Fread(@, layer.inputs * layer.outputs,
                              fs[WeightsName(fileprefix)].data)]
         IN  IF ~fs[BiasName(fileprefix)].exists
             THEN [ret |-> FALSE, layer |-> read]
             ELSE [ret |-> TRUE,
                   layer |-> [read EXCEPT !.pbias =
                                Fread(@, layer.outputs,
                                      fs[BiasName(fileprefix)].data)]]

\* FullyConnectedLayer::ToFile, lines 294-319
FCToFile(layer, fileprefix, fs, writable) ==
    IF WeightsName(fileprefix) \notin writable
    THEN [exit |-> 2, fs |-> fs]
    ELSE LET written == [fs EXCEPT ![WeightsName(fileprefix)] =
                            FileOf(Fwrite(layer.pneurons,
                                          layer.inputs * layer.outputs))]
         IN  IF BiasName(fileprefix) \notin writable
             THEN [exit |-> 2, fs |-> written]
             ELSE [exit |-> -1,
                   fs |-> [written EXCEPT ![BiasName(fileprefix)] =
                             FileOf(Fwrite(layer.pbias, layer.outputs))]]

(* A layer is written with ToFile and a second layer of the same shape is  *)
(* then read with FromFile from the same prefix.                           *)

\* a vector of n elements, pairwise different
Filled(src, n) ==
    [i \in 1 .. n |-> Elem(src, i)]

\* a stale file, longer than any vector written here
StaleFile ==
    FileOf(Filled("stale", 20))

\* the two files of the prefix "w"
LayerFiles ==
    {WeightsName("w"), BiasName("w")}

\* the layers to write: every vector holds pairwise different elements
LayersIn ==
    {[kind |-> "conv",
      layer |-> [ConvVectors(i, o, k) EXCEPT
                    !.pconv = Filled("pconv", i * k * k * o),
                    !.pbias = Filled("pbias", o)]] :
        i \in 1 .. 2, o \in 1 .. 2, k \in 1 .. 2}
    \cup
    {[kind |-> "fc",
      layer |-> [FullyConnectedLayer(i, o) EXCEPT
                    !.pneurons = Filled("pneurons", i * o),
                    !.pbias = Filled("pbias", o)]] :
        i \in 1 .. 3, o \in 1 .. 2}

\* a layer of the same shape as made by the constructor
SameShape(l) ==
    IF l.kind = "conv"
    THEN ConvVectors(l.layer.in_channels, l.layer.out_channels,
                     l.layer.kernel_size)
    ELSE FullyConnectedLayer(l.layer.inputs, l.layer.outputs)

InitFile ==
    /\ InitMain([r \in Procs |-> Fill(1)])
    /\ chan = [e \in Procs \X Procs |-> << >>]
    /\ \E l \in LayersIn, fs \in [LayerFiles -> {NoFile, StaleFile}],
          writable \in SUBSET LayerFiles :
         call = [state |-> "ready", fn |-> "ToFile", kind |-> l.kind,
                 src |-> l.layer, dst |-> SameShape(l), fs |-> fs,
                 writable |-> writable, exit |-> -1, ret |-> FALSE]

CallToFile ==
    /\ call.state = "ready"
    /\ call.fn = "ToFile"
    /\ LET out == IF call.kind = "conv"
                  THEN ConvToFile(call.src, "w", call.fs, call.writable)
                  ELSE FCToFile(call.src, "w", call.fs, call.writable)
       IN  call' = [call EXCEPT
                      !.state = IF out.exit = -1 THEN "written" ELSE "exited",
                      !.fs = out.fs, !.exit = out.exit]
    /\ UNCHANGED mainVars

CallFromFile ==
    /\ call.state = "written"
    /\ LET out == IF call.kind = "conv"
                  THEN ConvFromFile(call.dst, "w", call.fs)
                  ELSE FCFromFile(call.dst, "w", call.fs)
       IN  call' = [call EXCEPT !.state = "read", !.fn = "FromFile",
                                !.dst = out.layer, !.ret = out.ret]
    /\ UNCHANGED mainVars

NextFile ==
    \/ CallToFile
    \/ CallFromFile

SpecFile ==
    InitFile /\ [][NextFile]_vars

-----------------------------------------------------------------------------
(* main, lines 1001-1043: the initial network of a process, loaded from    *)
(* the weight files or drawn from the generator.                           *)

\* the k-th output of std::mt19937 seeded with seed
Draw(seed, k) ==
    seed * 100 + k

\* n values of a distribution fed with the outputs from + 1 .. from + n
Drawn(dist, seed, from, n) ==
    [i \in 1 .. n |-> Elem(dist, Draw(seed, from + i))]

\* the four layers as constructed (lines 990-996, with small shapes)
Layers ==
    [conv1 |-> ConvVectors(1, 2, 1), conv2 |-> ConvVectors(2, 1, 1),
     fc1 |-> FullyConnectedLayer(1, 2), fc2 |-> FullyConnectedLayer(2, 1)]

\* lines 1012-1042: the generator is seeded with FLAGS_random_seed, or with
\* rd() when the flag is negative; the eight vectors are filled in order
RandomNetwork(net, random_seed, rd) ==
    LET seed == IF random_seed < 0 THEN rd ELSE random_seed
        n1 == Len(net.conv1.pconv)
        n2 == n1 + Len(net.conv1.pbias)
        n3 == n2 + Len(net.conv2.pconv)
        n4 == n3 + Len(net.conv2.pbias)
        n5 == n4 + Len(net.fc1.pneurons)
        n6 == n5 + Len(net.fc1.pbias)
        n7 == n6 + Len(net.fc2.pneurons)
    IN  [conv1 |-> [net.conv1 EXCEPT
                      !.pconv = Drawn("dconv1", seed, 0, Len(@)),
                      !.pbias = Drawn("dconv1", seed, n1, Len(@))],
         conv2 |-> [net.conv2 EXCEPT
                      !.pconv = Drawn("dconv2", seed, n2, Len(@)),
                      !.pbias = Drawn("dconv2", seed, n3, Len(@))],
         fc1   |-> [net.fc1 EXCEPT
                      !.pneurons = Drawn("dfc1", seed, n4, Len(@)),
                      !.pbias = Drawn("dfc1", seed, n5, Len(@))],
         fc2   |-> [net.fc2 EXCEPT
                      !.pneurons = Drawn("dfc2", seed, n6, Len(@)),
                      !.pbias = Drawn("dfc2", seed, n7, Len(@))]]

\* the random network only without FLAGS_pretrained
InitialNetworkKeepLoaded(pretrained, random_seed, rd, fs) ==
    LET c1 == ConvFromFile(Layers.conv1, "conv1", fs)
        c2 == ConvFromFile(Layers.conv2, "conv2", fs)
        f1 == FCFromFile(Layers.fc1, "ip1", fs)
        f2 == FCFromFile(Layers.fc2, "ip2", fs)
        bRet == pretrained => (c1.ret /\ c2.ret /\ f1.ret /\ f2.ret)
        net == IF pretrained
               THEN [conv1 |-> c1.layer, conv2 |-> c2.layer,
                     fc1 |-> f1.layer, fc2 |-> f2.layer]
               ELSE Layers
    IN  [bRet |-> bRet,
         net |-> IF ~pretrained
                 THEN RandomNetwork(net, random_seed, rd) ELSE net]

\* lines 1001-1043: with FLAGS_pretrained all four layers are read (&= does
\* not skip a call); the random network follows when a read failed or the
\* flag is not set
InitialNetwork(pretrained, random_seed, rd, fs) ==
    LET c1 == ConvFromFile(Layers.conv1, "conv1", fs)
        c2 == ConvFromFile(Layers.conv2, "conv2", fs)
        f1 == FCFromFile(Layers.fc1, "ip1", fs)
        f2 == FCFromFile(Layers.fc2, "ip2", fs)
        bRet == pretrained => (c1.ret /\ c2.ret /\ f1.ret /\ f2.ret)
        net == IF pretrained
               THEN [conv1 |-> c1.layer, conv2 |-> c2.layer,
                     fc1 |-> f1.layer, fc2 |-> f2.layer]
               ELSE Layers
    IN  [bRet |-> bRet,
         net |-> IF ~bRet \/ ~pretrained
                 THEN RandomNetwork(net, random_seed, rd) ELSE net]

\* the eight weight files
NetworkFiles ==
    {WeightsName(f) : f \in {"conv1", "conv2", "ip1", "ip2"}}
        \cup {BiasName(f) : f \in {"conv1", "conv2", "ip1", "ip2"}}

\* values of FLAGS_random_seed
Seeds ==
    {-1, 0, 1}

\* values of std::random_device
Entropy ==
    {5, 6}

InitLoad ==
    /\ InitMain([r \in Procs |-> Fill(1)])
    /\ chan = [e \in Procs \X Procs |-> << >>]
    /\ \E pretrained \in BOOLEAN, random_seed \in Seeds, rd \in Entropy,
          fs \in [NetworkFiles -> {NoFile, FileOf(Filled("file", 4))}] :
         call = [state |-> "ready", fn |-> "InitialNetwork",
                 pretrained |-> pretrained, random_seed |-> random_seed,
                 rd |-> rd, fs |-> fs, out |-> << >>]

CallInitialNetwork ==
    /\ call.state = "ready"
    /\ call.fn = "InitialNetwork"
    /\ call' = [call EXCEPT
                  !.state = "returned",
                  !.out = InitialNetwork(call.pretrained, call.random_seed,
                                         call.rd, call.fs)]
    /\ UNCHANGED mainVars

NextLoad ==
    CallInitialNetwork

SpecLoad ==
    InitLoad /\ [][NextLoad]_vars

-----------------------------------------------------------------------------
(* Two runs of the program on the same flags and data.  What the runs      *)
(* share: the initial weights (the seed), the gradients (the data and the  *)
(* batch choice), the iteration.  What each run has of its own: the        *)
(* contents of the memory it allocates and reads before writing it.        *)

\* a worker's iteration it, lines 1245-1279, and the classification of a
\* test image with the resulting weights (lines 1379-1391).  mem.h_gp is
\* what the broadcast delivers, rank 0's h_gp* buffers, which no statement
\* of rank 0 writes; mem.d_gdp is the worker's d_gdp* as allocated
WorkerRun(p, g, it, mem) ==
    LET out == UpdateLocalWeights(LearningRate(it), RhoValue,
                                  mem.h_gp, mem.d_gdp, p, g)
        m == EvaluationPass(DeviceMem(NoBatch, NoActivations, out.p),
                            << TestImage(0) >>)
    IN  [p |-> out.p, result |-> m.result]

\* the contents of the never-written buffers of one run
Memories ==
    [h_gp : Garbage, d_gdp : Garbage]

InitRuns ==
    /\ InitMain([r \in Procs |-> Fill(1)])
    /\ chan = [e \in Procs \X Procs |-> << >>]
    /\ \E p \in InitWeights, g \in Gradients, it \in 0 .. (MaxIter - 1),
          mem1 \in Memories, mem2 \in Memories :
         call = [state |-> "ready", fn |-> "WorkerRun", p |-> p, g |-> g,
                 it |-> it, mem1 |-> mem1, mem2 |-> mem2,
                 out1 |-> << >>, out2 |-> << >>]

CallWorkerRuns ==
    /\ call.state = "ready"
    /\ call.fn = "WorkerRun"
    /\ call' = [call EXCEPT
                  !.state = "returned",
                  !.out1 = WorkerRun(call.p, call.g, call.it, call.mem1),
                  !.out2 = WorkerRun(call.p, call.g, call.it, call.mem2)]
    /\ UNCHANGED mainVars

NextRuns ==
    CallWorkerRuns

SpecRuns ==
    InitRuns /\ [][NextRuns]_vars

-----------------------------------------------------------------------------
(* The classification loop, lines 1378-1409, on the class vectors that     *)
(* ForwardPropagation leaves in d_fc2smax: the chosen class of each image  *)
(* and the classification error.  A class vector is a function from        *)
(* 0 .. NumOutputs - 1 to probabilities.                                   *)

\* lines 1400-1404 with <= in place of <
ChosenLastMax(class_vec, id, chosen) ==
    LET Step[k \in 1 .. NumOutputs, c \in 0 .. (NumOutputs - 1)] ==
            IF k >= NumOutputs THEN c
            ELSE Step[k + 1, IF class_vec[c] <= class_vec[k] THEN k ELSE c]
    IN  Step[id, chosen]

\* lines 1400-1404: the loop from id on, with chosen so far
Chosen(class_vec, id, chosen) ==
    LET Step[k \in 1 .. NumOutputs, c \in 0 .. (NumOutputs - 1)] ==
            IF k >= NumOutputs THEN c
            ELSE Step[k + 1, IF class_vec[c] < class_vec[k] THEN k ELSE c]
    IN  Step[id, chosen]

\* lines 1378-1409: class_vecs[i + 1] is class_vec of image i
ClassificationLoop(class_vecs, test_labels, classifications) ==
    LET chosen == [i \in 1 .. classifications |-> Chosen(class_vecs[i], 1, 0)]
        NumErrors[i \in 0 .. classifications] ==
            IF i = 0 THEN 0
            ELSE NumErrors[i - 1]
                    + (IF chosen[i] # test_labels[i] THEN 1 ELSE 0)
    IN  [chosen |-> chosen,
         num_errors |-> NumErrors[classifications],
         classification_error |->
             Frac(NumErrors[classifications], classifications)]

\* probabilities, as integers
Probs ==
    {0, 1}

ClassVecs ==
    [0 .. (NumOutputs - 1) -> Probs]

InitClassify ==
    /\ InitMain([r \in Procs |-> Fill(1)])
    /\ chan = [e \in Procs \X Procs |-> << >>]
    /\ \E classifications \in 1 .. MaxClassify :
         \E class_vecs \in [1 .. classifications -> ClassVecs],
            test_labels \in [1 .. classifications -> 0 .. (NumOutputs - 1)] :
           call = [state |-> "ready", fn |-> "ClassificationLoop",
                   classifications |-> classifications,
                   class_vecs |-> class_vecs, test_labels |-> test_labels,
                   out |-> << >>]

CallClassificationLoop ==
    /\ call.state = "ready"
    /\ call.fn = "ClassificationLoop"
    /\ call' = [call EXCEPT
                  !.state = "returned",
                  !.out = ClassificationLoop(call.class_vecs, call.test_labels,
                                             call.classifications)]
    /\ UNCHANGED mainVars

NextClassify ==
    CallClassificationLoop

SpecClassify ==
    InitClassify /\ [][NextClassify]_vars

-----------------------------------------------------------------------------
(* The indices the classification loop reads (lines 1361-1406) on a        *)
(* process, against the test set the process holds.  Only rank 0 assigns   *)
(* test_size (line 939) and sizes test_images and test_labels (lines       *)
(* 945-946); on the other ranks test_size holds what its declaration left  *)
(* (line 927) and both vectors are empty.                                  *)

\* what the never-assigned test_size of a worker may hold, as (int)
TestSizeGarbage ==
    {0, 3}

\* lines 1361-1363 and the loop bounds of lines 1379-1406: the images i
\* whose pixels test_images[i * width * height * channels + j] and label
\* test_labels[i] are read, and the number of images the vectors hold
EvaluationReads(rank, classify, test_size_read, junk) ==
    LET test_size == IF rank = 0 THEN test_size_read ELSE junk
        loaded == IF rank = 0 THEN test_size_read ELSE 0
        classifications == IF classify < 0 THEN test_size ELSE classify
    IN  [classifications |-> classifications,
         loaded |-> loaded,
         reads |-> IF classifications > 0
                   THEN 0 .. (classifications - 1) ELSE {}]

\* values of FLAGS_classify
ClassifyFlags ==
    (-1) .. (MaxClassify + 1)

InitReads ==
    /\ InitMain([r \in Procs |-> Fill(1)])
    /\ chan = [e \in Procs \X Procs |-> << >>]
    /\ \E rank \in Procs, classify \in ClassifyFlags,
          test_size_read \in 0 .. MaxClassify, junk \in TestSizeGarbage :
         call = [state |-> "ready", fn |-> "EvaluationReads", rank |-> rank,
                 classify |-> classify, test_size_read |-> test_size_read,
                 junk |-> junk, out |-> << >>]

CallEvaluationReads ==
    /\ call.state = "ready"
    /\ call.fn = "EvaluationReads"
    /\ call' = [call EXCEPT
                  !.state = "returned",
                  !.out = EvaluationReads(call.rank, call.classify,
                                          call.test_size_read, call.junk)]
    /\ UNCHANGED mainVars

NextReads ==
    CallEvaluationReads

SpecReads ==
    InitReads /\ [][NextReads]_vars

-----------------------------------------------------------------------------
(* main, lines 1191 and 1338-1356: the processes of one run leave the      *)
(* training loop and save their weights.  The block of line 1338 tests     *)
(* FLAGS_save_data and nothing else; the files are those of the working    *)
(* directory, which the processes share.                                   *)

\* values of FLAGS_iterations
IterationFlags ==
    {0, MaxIter}

\* line 1191: with no iteration to run every process is past the loop at
\* once; with iterations to run a worker waits in the receive of line 1205
\* for a batch that rank 0 does not send, and rank 0 runs its iterations
LeavesLoop(rank, iterations) ==
    iterations <= 0 \/ rank = 0

\* cudaMemcpy(&vec[0], d_p, sizeof(float) * vec.size(), DeviceToHost): the
\* n values the device of the process holds behind d_p
DeviceToHost(d_p_, rank, n) ==
    [i \in 1 .. n |-> Elem(d_p_, 10 * rank + i)]

\* lines 1341-1348: the weights of the process are copied from its device
\* to the vectors of its layers
TrainedNetwork(rank) ==
    [conv1 |-> [Layers.conv1 EXCEPT
                  !.pconv = DeviceToHost("d_pconv1", rank, Len(@)),
                  !.pbias = DeviceToHost("d_pconv1bias", rank, Len(@))],
     conv2 |-> [Layers.conv2 EXCEPT
                  !.pconv = DeviceToHost("d_pconv2", rank, Len(@)),
                  !.pbias = DeviceToHost("d_pconv2bias", rank, Len(@))],
     fc1 |-> [Layers.fc1 EXCEPT
                  !.pneurons = DeviceToHost("d_pfc1", rank, Len(@)),
                  !.pbias = DeviceToHost("d_pfc1bias", rank, Len(@))],
     fc2 |-> [Layers.fc2 EXCEPT
                  !.pneurons = DeviceToHost("d_pfc2", rank, Len(@)),
                  !.pbias = DeviceToHost("d_pfc2bias", rank, Len(@))]]

\* the files one ToFile call opens with "wb" and writes (lines 218-243 and
\* 294-319): the weights file, then the bias file
ToFileWrites(fileprefix, writable) ==
    IF WeightsName(fileprefix) \notin writable
    THEN {}
    ELSE IF BiasName(fileprefix) \notin writable
         THEN {WeightsName(fileprefix)}
         ELSE {WeightsName(fileprefix), BiasName(fileprefix)}

\* lines 1338-1356: if (FLAGS_save_data), then conv1.ToFile("conv1"),
\* conv2.ToFile("conv2"), fc1.ToFile("ip1"), fc2.ToFile("ip2"); a ToFile
\* that cannot open its file ends the process with exit(2)
SaveData(rank, save_data, fs, writable) ==
    IF ~save_data
    THEN [exit |-> -1, fs |-> fs, wrote |-> {}]
    ELSE LET net == TrainedNetwork(rank)
             c1 == ConvToFile(net.conv1, "conv1", fs, writable)
             c2 == ConvToFile(net.conv2, "conv2", c1.fs, writable)
             f1 == FCToFile(net.fc1, "ip1", c2.fs, writable)
             f2 == FCToFile(net.fc2, "ip2", f1.fs, writable)
             w1 == ToFileWrites("conv1", writable)
             w2 == w1 \cup ToFileWrites("conv2", writable)
             w3 == w2 \cup ToFileWrites("ip1", writable)
             w4 == w3 \cup ToFileWrites("ip2", writable)
         IN  IF c1.exit # -1 THEN [exit |-> c1.exit, fs |-> c1.fs, wrote |-> w1]
             ELSE IF c2.exit # -1
                  THEN [exit |-> c2.exit, fs |-> c2.fs, wrote |-> w2]
             ELSE IF f1.exit # -1
                  THEN [exit |-> f1.exit, fs |-> f1.fs, wrote |-> w3]
             ELSE [exit |-> f2.exit, fs |-> f2.fs, wrote |-> w4]

\* the directory is writable, or one of the files cannot be opened
Writables ==
    {NetworkFiles} \cup {NetworkFiles \ {f} : f \in NetworkFiles}

InitSave ==
    /\ InitMain([r \in Procs |-> Fill(1)])
    /\ chan = [e \in Procs \X Procs |-> << >>]
    /\ \E iterations \in IterationFlags, save_data \in BOOLEAN,
          writable \in Writables :
         call = [state |-> "running", fn |-> "SaveData",
                 iterations |-> iterations, save_data |-> save_data,
                 writable |-> writable,
                 at |-> [r \in Procs |-> "loop"],
                 fs |-> [f \in NetworkFiles |-> NoFile],
                 writers |-> [f \in NetworkFiles |-> {}],
                 exit |-> [r \in Procs |-> -1]]

\* line 1191, the loop test of process r
LeaveLoop(r) ==
    /\ call.state = "running"
    /\ call.fn = "SaveData"
    /\ call.at[r] = "loop"
    /\ call' = [call EXCEPT
                  !.at[r] = IF LeavesLoop(r, call.iterations)
                            THEN "trained" ELSE "blocked"]
    /\ UNCHANGED mainVars

\* lines 1338-1356 on process r
CallSaveData(r) ==
    /\ call.state = "running"
    /\ call.fn = "SaveData"
    /\ call.at[r] = "trained"
    /\ LET out == SaveData(r, call.save_data, call.fs, call.writable)
       IN  call' = [call EXCEPT
                      !.at[r] = IF out.exit = -1 THEN "saved" ELSE "exited",
                      !.exit[r] = out.exit,
                      !.fs = out.fs,
                      !.writers = [f \in NetworkFiles |->
                                     IF f \in out.wrote
                                     THEN call.writers[f] \cup {r}
                                     ELSE call.writers[f]]]
    /\ UNCHANGED mainVars

NextSave ==
    \/ \E r \in Procs : LeaveLoop(r)
    \/ \E r \in Procs : CallSaveData(r)

SpecSave ==
    InitSave /\ [][NextSave]_vars

-----------------------------------------------------------------------------
(* main, lines 1001-1043 and 1158-1176: every process of the run makes its *)
(* initial network itself, with its own generator, and copies it to its    *)
(* device as its local and as its global weights.  No message carries      *)
(* weights before the first iteration.                                     *)

\* lines 1158-1176: cudaMemcpyAsync(d, &vec[0], ..., HostToDevice) for the
\* eight vectors of the network
HostToDevice(net) ==
    [conv1 |-> net.conv1.pconv, conv1bias |-> net.conv1.pbias,
     conv2 |-> net.conv2.pconv, conv2bias |-> net.conv2.pbias,
     fc1 |-> net.fc1.pneurons, fc1bias |-> net.fc1.pbias,
     fc2 |-> net.fc2.pneurons, fc2bias |-> net.fc2.pbias]

\* the weight files of the working directory: none, or all eight
Directories ==
    {[f \in NetworkFiles |-> NoFile],
     [f \in NetworkFiles |-> FileOf(Filled("file", 4))]}

InitStartNetwork ==
    /\ InitMain([r \in Procs |-> Fill(1)])
    /\ chan = [e \in Procs \X Procs |-> << >>]
    /\ \E pretrained \in BOOLEAN, random_seed \in Seeds,
          rd \in [Procs -> Entropy], fs \in Directories :
         call = [state |-> "running", fn |-> "StartNetwork",
                 pretrained |-> pretrained, random_seed |-> random_seed,
                 rd |-> rd, fs |-> fs,
                 at |-> [r \in Procs |-> "network"],
                 d_p |-> [r \in Procs |-> << >>],
                 d_gp |-> [r \in Procs |-> << >>]]

\* lines 1001-1043 and 1158-1176 on process r
StartNetwork(r) ==
    /\ call.state = "running"
    /\ call.fn = "StartNetwork"
    /\ call.at[r] = "network"
    /\ LET out == InitialNetwork(call.pretrained, call.random_seed,
                                 call.rd[r], call.fs)
       IN  call' = [call EXCEPT
                      !.at[r] = "copied",
                      !.d_p[r] = HostToDevice(out.net),
                      !.d_gp[r] = HostToDevice(out.net)]
    /\ UNCHANGED mainVars

NextStartNetwork ==
    \E r \in Procs : StartNetwork(r)

SpecStartNetwork ==
    InitStartNetwork /\ [][NextStartNetwork]_vars

-----------------------------------------------------------------------------
(* Properties of the training loop *)

\* the blocks of an iteration that follow the fan-out loop
AfterFanout ==
    {"compute", "copyglobal", "bcast", "update", "collect"}

\* the blocks of an iteration that follow lines 1212-1231
AfterCompute ==
    {"copyglobal", "bcast", "update", "collect"}

\* C1: in every iteration the coordinator sends exactly one image slice and
\* one label slice to every worker: once rank 0 has left the fan-out loop of
\* an iteration, each worker has been sent one batch in that iteration.
C1_OneBatchPerWorker ==
    pc[0] \in AfterFanout => \A w \in Workers : fanoutSent[w] = 1

\* C2: the data and labels a worker has on its device for ForwardPropagation
\* and Backpropagation are the image slice and the label slice it received in
\* this iteration's fan-out.
C2_DeviceBatchIsReceivedBatch ==
    \A w \in Workers :
        pc[w] \in AfterCompute =>
            /\ d_batch[w].data = mBatch[w].img
            /\ d_batch[w].labels = mBatch[w].lab

\* C3: what the coordinator broadcasts in an iteration (the contents of its
\* h_gp buffers, which every worker receives) are its device-resident global
\* weights, as the initial copy and the global updates left them.
C3_BroadcastIsDeviceGlobal ==
    pc[0] = "update" => /\ h_gp[0] = devBefore
                        /\ d_gp[0] = devBefore

\* C9: every residual message a worker sends carries, for the tensor of its
\* tag, the residual that the worker's UpdateLocalWeights computed in the
\* iteration of the send.
C9_SentResidualIsComputed ==
    \A w \in Workers :
        \A k \in 1 .. Len(chan[<< w, 0 >>]) :
            LET m == chan[<< w, 0 >>][k]
            IN  m.val = dLog[w][m.it + 1][ParamOfTag(m.tag)]

\* C10: in every iteration the coordinator receives the eight residual
\* messages of every worker before it starts the next iteration: when rank 0
\* is back at the loop test after an iteration, it has received one residual
\* set from each worker in that iteration.
C10_ResidualsCollected ==
    (pc[0] = "loop" /\ iter[0] > 0) => \A w \in Workers : residRecvd[w] = 1

-----------------------------------------------------------------------------
(* Properties of UpdateLocalWeights, on the call of SpecULW *)

Returned ==
    call.state = "returned"

\* C4: for each of the eight tensors the call leaves
\* local = local_before - d - learning_rate * g, with g the gradient of the
\* same parameter passed to the call and d the residual the call computed.
C4_LocalUpdateFormula ==
    Returned =>
        \A q \in Params :
            call.out.p[q] =
                call.args.p[q] - call.out.gdp[q]
                    - call.learning_rate * call.args.g[q]

\* C5: with rho = 0 the call is plain SGD for every tensor:
\* local = local_before - learning_rate * g, whatever the global weights and
\* the prior residual contents.
C5_PlainSGDWhenRhoZero ==
    (Returned /\ call.rho = 0) =>
        \A q \in Params :
            call.out.p[q] =
                call.args.p[q] - call.learning_rate * call.args.g[q]

\* the call with the local and the global tensor of parameter q both zero
ZeroConsensus(q) ==
    UpdateLocalWeights(call.learning_rate, call.rho,
        [call.args.gp EXCEPT ![q] = 0], call.args.gdp,
        [call.args.p EXCEPT ![q] = 0], call.args.g)

\* C6: the consensus term of d is a scaled difference of local and global:
\* when local = global for a tensor, d of that tensor is what it is with
\* both zero, i.e. the term contributes nothing.
C6_ConsensusTermIsDifference ==
    Returned =>
        \A q \in Params :
            call.args.p[q] = call.args.gp[q] =>
                call.out.gdp[q] = ZeroConsensus(q).gdp[q]

\* C7: d does not depend on what the residual buffers held before the call:
\* the call on the same arguments with any other prior residual contents
\* yields the same d for every tensor.
C7_ResidualIgnoresPriorContents ==
    Returned =>
        \A prior \in TensorIn :
            UpdateLocalWeights(call.learning_rate, call.rho, call.args.gp,
                prior, call.args.p, call.args.g).gdp = call.out.gdp

\* values written into another parameter's tensor
OtherValues ==
    {-4, 3}

\* the call with tensor q2 of one argument group set to v
WithTensor(group, q2, v) ==
    LET a == [call.args EXCEPT ![group][q2] = v]
    IN  UpdateLocalWeights(call.learning_rate, call.rho, a.gp, a.gdp, a.p, a.g)

\* C8: d and the new local of a parameter are computed from the tensors of
\* that parameter only: changing any tensor of another parameter, in any of
\* the four argument groups, changes neither.
C8_OnlyOwnTensors ==
    Returned =>
        \A q \in Params :
            \A q2 \in Params \ {q} :
                \A group \in {"gp", "gdp", "p", "g"} :
                    \A v \in OtherValues :
                        /\ WithTensor(group, q2, v).gdp[q] = call.out.gdp[q]
                        /\ WithTensor(group, q2, v).p[q] = call.out.p[q]

-----------------------------------------------------------------------------
(* Properties of the global update, on the histories of the training loop *)

\* the workers that have sent their residuals of iteration k (counted from 1)
Reported(k) ==
    {w \in Workers : Len(sentLog[w]) >= k}

\* the sum, tensor by tensor, of the residuals the workers of S sent in
\* iteration k
RECURSIVE SumResiduals(_, _)
SumResiduals(S, k) ==
    IF S = {} THEN Fill(0)
    ELSE LET w == CHOOSE x \in S : TRUE
             rest == SumResiduals(S \ {w}, k)
         IN  [q \in Params |-> sentLog[w][k][q] + rest[q]]

\* C11: once the coordinator has finished an iteration, its global weights
\* are those it had before the collection loop plus learning_rate times the
\* sum of the residuals the workers reported in that iteration, for each of
\* the eight tensors, and UpdateGlobalWeights ran once per reporting worker.
C11_GlobalUpdateAccumulates ==
    \A k \in 1 .. Len(gLog) :
        iter[0] >= k =>
            /\ gLog[k].calls = Cardinality(Reported(k))
            /\ \A q \in Params :
                   gLog[k].after[q] =
                       gLog[k].before[q]
                           + gLog[k].learningRate * SumResiduals(Reported(k), k)[q]

\* C12: the iteration boundary is a barrier of the whole group: the
\* iteration counters of any two processes never differ by more than one.
C12_IterationBarrier ==
    \A r \in Procs : \A s \in Procs : iter[r] - iter[s] <= 1

\* the steps of a worker's iteration, in program order
StepOrder ==
    << "recv", "fp", "bp", "bcast", "ulw", "send" >>

\* C13: every worker performs the steps of its iterations in the order batch
\* receive, ForwardPropagation, Backpropagation, receipt of the broadcast,
\* UpdateLocalWeights, residual send; and every ForwardPropagation after the
\* first reads the local weights the preceding UpdateLocalWeights left.
C13_WorkerStepOrder ==
    \A w \in Workers :
        /\ \A k \in 1 .. Len(steps[w]) :
               steps[w][k] \notin {"classify", "log", "reset", "exit"} =>
                   steps[w][k] = StepOrder[((k - 1) % Len(StepOrder)) + 1]
        /\ \A k \in 2 .. Len(fpLog[w]) :
               /\ Len(pLog[w]) >= k - 1
               /\ fpLog[w][k] = pLog[w][k - 1]

\* a worker is in its second iteration, past ForwardPropagation, with local
\* weights that its first UpdateLocalWeights changed
C13_Witness ==
    \E w \in Workers :
        /\ Len(fpLog[w]) >= 2
        /\ fpLog[w][2] # fpLog[w][1]
        /\ Len(steps[w]) >= Len(StepOrder) + 3

\* C14: the weights the classification loop forward-propagates the test
\* images through, on rank 0 (which read the test set and reports the error
\* rate), are the local weights the UpdateLocalWeights of the last training
\* iteration left on that process.
C14_EvaluatesFinalLocalWeights ==
    (pc[0] = "done" /\ steps[0] # << >> /\ steps[0][Len(steps[0])] = "classify") =>
        /\ Len(pLog[0]) = MaxIter
        /\ fpLog[0][Len(fpLog[0])] = pLog[0][Len(pLog[0])]

-----------------------------------------------------------------------------
(* Properties of ForwardPropagation, on the calls of SpecFP *)

\* C15: ForwardPropagation leaves the input batch and the eight weight
\* tensors (and the ones vector) as they were: it writes only the activation
\* buffers, the result and the workspace; hence the classification loop
\* leaves every weight tensor unchanged.
C15_ForwardPropagationFrame ==
    call.state = "returned" =>
        /\ call.out.p = call.args.p
        /\ call.out.onevec = call.args.onevec
        /\ call.fn = "ForwardPropagation" => call.out.data = call.args.data

\* a classification loop over at least one image has returned, with the
\* activations and the result rewritten
C15_Witness ==
    /\ call.state = "returned"
    /\ call.fn = "EvaluationPass"
    /\ call.images # << >>
    /\ call.out.conv1 # call.args.conv1
    /\ call.out.result # call.args.result

-----------------------------------------------------------------------------
(* Properties of Backpropagation, on the calls of SpecBP *)

\* C16: the loss gradient Backpropagation computes the fc2 gradients from is
\* (softmax output - one_hot(label)) / batch_size, for every sample and
\* every class.
C16_LossGradient ==
    (call.state = "returned" /\ call.fn = "Backpropagation") =>
        \A smp \in 0 .. (call.m_batchSize - 1) :
            \A c \in 0 .. (NumOutputs - 1) :
                LET k == smp * NumOutputs + c + 1
                    one_hot == IF call.labels[smp + 1] = c THEN 1 ELSE 0
                    smax == call.fc2smax[k]
                IN  call.out[k].num * smax.den * call.m_batchSize =
                        (smax.num - one_hot * smax.den) * call.out[k].den

\* a call on a batch of more than one sample, with different labels, has
\* returned
C16_Witness ==
    /\ call.state = "returned"
    /\ call.fn = "Backpropagation"
    /\ call.m_batchSize > 1
    /\ call.labels[1] # call.labels[2]
    /\ call.out[1].den = call.m_batchSize

-----------------------------------------------------------------------------
(* Properties of the network's shapes, on the calls of SpecNet *)

\* floor(a / b) for positive b
Floor(a, b) ==
    a \div b

\* a convolution stage: input in_h x in_w, layer descriptor conv, output
\* tensor descriptor t, buffer of elems elements
ConvStageOk(in_h, in_w, conv, t, elems) ==
    LET out_h == in_h - call.kernel_size + 1
        out_w == in_w - call.kernel_size + 1
    IN  /\ conv.in_height = in_h /\ conv.in_width = in_w
        /\ conv.out_height = out_h /\ conv.out_width = out_w
        /\ t.h = out_h /\ t.w = out_w
        /\ elems = t.n * t.c * out_h * out_w

\* a pooling stage: input in_h x in_w, output tensor descriptor t, buffer of
\* elems elements
PoolStageOk(in_h, in_w, stride, t, elems) ==
    /\ t.h = Floor(in_h, stride) /\ t.w = Floor(in_w, stride)
    /\ elems = t.n * t.c * Floor(in_h, stride) * Floor(in_w, stride)

\* C17: every convolution stage has out_dim = in_dim - kernel_size + 1 and
\* every pooling stage out_dim = floor(in_dim / stride), in the layer
\* descriptors, the tensor descriptors and the buffers' sizes alike.
C17_ShapeArithmetic ==
    (call.state = "returned" /\ call.fn = "Network") =>
        LET net == call.out
            ctx == net.context
        IN  /\ ConvStageOk(call.height, call.width, net.conv1,
                           ctx.conv1Tensor, net.d_conv1)
            /\ PoolStageOk(ctx.conv1Tensor.h, ctx.conv1Tensor.w, call.stride1,
                           ctx.pool1Tensor, net.d_pool1)
            /\ ConvStageOk(ctx.pool1Tensor.h, ctx.pool1Tensor.w, net.conv2,
                           ctx.conv2Tensor, net.d_conv2)
            /\ PoolStageOk(ctx.conv2Tensor.h, ctx.conv2Tensor.w, call.stride2,
                           ctx.pool2Tensor, net.d_pool2)

\* a network was built in which both poolings round down
C17_Witness ==
    /\ call.state = "returned"
    /\ call.fn = "Network"
    /\ call.out.conv1.out_width % call.stride1 # 0
    /\ call.out.conv2.out_height % call.stride2 # 0
    /\ call.out.context.pool2Tensor.h >= 1
    /\ call.out.context.pool2Tensor.w >= 1

-----------------------------------------------------------------------------
(* Properties of the batch selection, on the calls of SpecSelect *)

\* C18: for every non-empty training set and every batch size the selection
\* does not fail, and the batch selected is the slice of batch_size images
\* and batch_size labels at one index b with 0 <= b and
\* (b + 1) * batch_size <= train_size.
C18_BatchInsideTrainingSet ==
    (call.state = "returned" /\ call.fn = "SelectBatch") =>
        LET b == call.out.rand_mbid
        IN  /\ ~call.out.killed
            /\ 0 <= b
            /\ (b + 1) * call.m_batchSize <= call.train_size
            /\ call.out.images = [first |-> b * call.m_batchSize,
                                  count |-> call.m_batchSize]
            /\ call.out.labels = [first |-> b * call.m_batchSize,
                                  count |-> call.m_batchSize]

-----------------------------------------------------------------------------
(* Properties of the exit status, on the runs of SpecExit *)

\* the process that reads the datasets has met an empty or unreadable
\* training set
TrainingSetEmpty ==
    call.rank = 0 /\ call.env.train_size = 0

\* the test-set read returned a size other than the test set's
TestSetSizeMismatch ==
    call.rank = 0 /\ call.env.test_read # 0
        /\ call.env.test_read # call.env.test_size

\* the test-set read failed (returned no image)
TestSetReadFailed ==
    call.rank = 0 /\ call.env.test_read = 0 /\ call.env.test_size # 0

InvalidDevice ==
    call.env.gpu < 0 \/ call.env.gpu >= call.env.num_gpus

\* C19: the exit status follows the table, each status produced by exactly
\* its cause: 1 by an empty or unreadable training set, 2 by a test-set read
\* of mismatching size, 3 by a failed test-set read, 4 by an invalid device
\* selector, 0 by success.
C19_ExitStatusTable ==
    (call.state = "returned" /\ call.fn = "main") =>
        /\ call.out.status = 1 => TrainingSetEmpty
        /\ call.out.status = 2 => TestSetSizeMismatch
        /\ call.out.status = 3 => TestSetReadFailed
        /\ call.out.status = 4 => InvalidDevice
        /\ call.out.status = 0 =>
               ~(TrainingSetEmpty \/ TestSetSizeMismatch
                    \/ TestSetReadFailed \/ InvalidDevice)

\* C20: a backend abort (FatalError) or a save failure (ToFile) never exits
\* with a status the table gives to a configuration error (1, 2, 3 or 4).
C20_DistinctFailureStatus ==
    (call.state = "returned" /\ call.fn = "main") =>
        (call.out.cause \in {"FatalError", "ToFile"} =>
            call.out.status \notin {1, 2, 3, 4})

-----------------------------------------------------------------------------
(* Properties of the start of main, on the runs of FairSpecStart *)

\* C21: when the coordinator detects a dataset error and exits with status
\* 1, 2 or 3, every other process eventually ends too: none stays blocked in
\* a collective or a receive.
C21_DatasetErrorEndsRun ==
    (pc[0] = "exited" /\ exitStatus[0] \in {1, 2, 3})
        ~> (\A r \in Workers : pc[r] \in Ended)

-----------------------------------------------------------------------------
(* Properties of error handling *)

\* the last n entries of a sequence
Last(q, n) ==
    SubSeq(q, Len(q) - n + 1, Len(q))

\* the device memory of a process
Device(r) ==
    << d_p[r], d_gp[r], d_gdp[r], d_g[r], d_act[r], d_batch[r] >>

\* the step adds no message of process r to a channel or to a broadcast
NoMessageFrom(r) ==
    /\ \A s \in Procs : Len(chan'[<< r, s >>]) <= Len(chan[<< r, s >>])
    /\ r = 0 => \A w \in Procs : Len(bcast'[w]) <= Len(bcast[w])

\* C22: once a CUDA, cuBLAS or cuDNN call has failed, the process logs the
\* failure with file and line, resets the device context and only then
\* exits (with status 1); from the failure on it issues no device operator
\* and no message.
C22_AbortTearsDownFirst ==
    /\ [](\A r \in Procs : pc[r] = "aborted" =>
            /\ Len(steps[r]) >= 3
            /\ Last(steps[r], 3) = << "log", "reset", "exit" >>
            /\ exitStatus[r] = 1)
    /\ [][\A r \in Procs : pc[r] = "aborted" =>
            /\ Device(r)' = Device(r)
            /\ NoMessageFrom(r)
            /\ steps'[r] = steps[r]
            /\ pc'[r] = "aborted"]_vars

\* a worker whose residual copy (line 1281) failed after its local update
C22_Witness ==
    \E r \in Workers :
        /\ pc[r] = "aborted"
        /\ Len(steps[r]) >= 4
        /\ Last(steps[r], 4) = << "ulw", "log", "reset", "exit" >>
        /\ dLog[r] # << >>

\* the host buffers of a process that a transfer writes
HostBuffers(r) ==
    << mBatch[r], h_gp[r], h_gdp[r] >>

\* C23: a failure of a point-to-point send, a receive or a broadcast is
\* fatal: the process that meets it ends at the failed call, and neither
\* that step nor any later one changes its buffers, its device memory or
\* its iteration, or adds a message of it.
C23_TransferFailureIsFatal ==
    /\ [](\A r \in Procs :
            (\E k \in 1 .. Len(steps[r]) : steps[r][k] = "mpi_error") =>
                /\ pc[r] = "mpiabort"
                /\ steps[r][Len(steps[r])] = "mpi_error"
                /\ exitStatus[r] # 0)
    /\ [][\A r \in Procs : pc'[r] = "mpiabort" =>
            /\ HostBuffers(r)' = HostBuffers(r)
            /\ Device(r)' = Device(r)
            /\ iter'[r] = iter[r]
            /\ NoMessageFrom(r)]_vars

\* a worker whose residual send failed, after a local update, while another
\* process has gone on
C23_Witness ==
    \E r \in Workers :
        /\ pc[r] = "mpiabort"
        /\ Len(steps[r]) >= 2
        /\ Last(steps[r], 2) = << "ulw", "mpi_error" >>
        /\ pc[0] = "update"

-----------------------------------------------------------------------------
(* Properties of the weight files *)

\* the weight vector of a layer of either kind
WeightVec(kind, layer) ==
    IF kind = "conv" THEN layer.pconv ELSE layer.pneurons

\* the product of the dimensions of the weights of a layer
WeightCount(kind, layer) ==
    IF kind = "conv"
    THEN layer.in_channels * layer.out_channels
            * layer.kernel_size * layer.kernel_size
    ELSE layer.inputs * layer.outputs

\* the number of biases of a layer
BiasCount(kind, layer) ==
    IF kind = "conv" THEN layer.out_channels ELSE layer.outputs

\* C25: ToFile followed by FromFile with the same prefix on a layer of the
\* same shape restores weights and biases element for element, the files
\* holding exactly product-of-dimensions weights and out-count biases.
C25_WeightFileRoundTrip ==
    call.state = "read" =>
        /\ call.ret
        /\ WeightVec(call.kind, call.dst) = WeightVec(call.kind, call.src)
        /\ call.dst.pbias = call.src.pbias
        /\ Len(call.fs[WeightsName("w")].data)
              = WeightCount(call.kind, call.src)
        /\ Len(call.fs[BiasName("w")].data) = BiasCount(call.kind, call.src)

\* a convolution layer with a 2 x 2 kernel written over stale files and
\* read back
C25_Witness ==
    /\ call.state = "read"
    /\ call.kind = "conv"
    /\ call.src.kernel_size = 2
    /\ call.src.in_channels = 2
    /\ Len(call.dst.pconv) = 8
    /\ call.dst.pconv[8] = Elem("pconv", 8)

\* the eight tensors of a network
Tensors(net) ==
    << net.conv1.pconv, net.conv1.pbias, net.conv2.pconv, net.conv2.pbias,
       net.fc1.pneurons, net.fc1.pbias, net.fc2.pneurons, net.fc2.pbias >>

\* every element of the eight tensors was drawn from the generator
AllDrawn(net) ==
    \A t \in 1 .. 8 : \A i \in 1 .. Len(Tensors(net)[t]) :
        Tensors(net)[t][i].src \in {"dconv1", "dconv2", "dfc1", "dfc2"}

\* C24: a missing weight file does not end the process: the load returns
\* false, and when any of the four layer loads fails the network is drawn
\* at random, none of the eight tensors keeping values read from a file.
C24_FailedLoadGivesRandomNetwork ==
    (call.state = "returned" /\ call.fn = "InitialNetwork"
        /\ call.pretrained
        /\ \E f \in NetworkFiles : ~call.fs[f].exists) =>
            /\ ~call.out.bRet
            /\ AllDrawn(call.out.net)

\* seven of the eight files are there and were read, one bias file is not
C24_Witness ==
    /\ call.state = "returned"
    /\ call.fn = "InitialNetwork"
    /\ call.pretrained
    /\ \A f \in NetworkFiles : call.fs[f].exists <=> f # BiasName("ip2")
    /\ call.out.net.conv1.pconv[1].src = "dconv1"

-----------------------------------------------------------------------------
(* Properties of two runs *)

-----------------------------------------------------------------------------
(* Properties of the classification loop *)

\* C27: the chosen class of every evaluated image is an index of maximal
\* probability, the lowest one on ties, and the reported error is the
\* number of evaluated images whose chosen class differs from the label,
\* divided by the number of images evaluated.
C27_ArgMaxAndErrorRate ==
    (call.state = "returned" /\ call.fn = "ClassificationLoop") =>
        /\ \A i \in 1 .. call.classifications :
             LET v == call.class_vecs[i]
                 c == call.out.chosen[i]
             IN  /\ c \in 0 .. (NumOutputs - 1)
                 /\ \A id \in 0 .. (NumOutputs - 1) : v[id] <= v[c]
                 /\ \A id \in 0 .. (c - 1) : v[id] < v[c]
        /\ call.out.classification_error =
              Frac(Cardinality({i \in 1 .. call.classifications :
                                  call.out.chosen[i] # call.test_labels[i]}),
                   call.classifications)

\* two images, the first with a tie of its two highest classes and
\* classified right, the second classified wrong
C27_Witness ==
    /\ call.state = "returned"
    /\ call.fn = "ClassificationLoop"
    /\ call.classifications = 2
    /\ call.class_vecs[1][0] = 0
    /\ call.class_vecs[1][1] = 1
    /\ call.class_vecs[1][2] = 1
    /\ call.out.chosen[1] = 1
    /\ call.test_labels[1] = 1
    /\ call.out.chosen[2] # call.test_labels[2]
    /\ call.out.num_errors = 1

-----------------------------------------------------------------------------
(* Progress of the training loop, on the runs of FairSpec *)

\* C28: the training loop is free of deadlock: every blocking receive is
\* matched by a send of its peer, and every process eventually ends, with
\* all its iterations completed unless a backend call failed.
C28_TrainingLoopTerminates ==
    <>(\A r \in Procs :
          /\ pc[r] \in Ended
          /\ pc[r] \in {"done", "killed"} => iter[r] = MaxIter)

-----------------------------------------------------------------------------
(* The frame of UpdateLocalWeights, on the runs of SpecULW *)

\* C29: UpdateLocalWeights changes only the eight local tensors and the
\* eight dual-residual tensors: the eight gradient tensors and the eight
\* global tensors hold after the call what they held before it.
C29_UpdateLocalWeightsFrame ==
    Returned =>
        /\ call.out.g = call.args.g
        /\ call.out.gp = call.args.gp

-----------------------------------------------------------------------------
(* The input count of fc1, on the runs of SpecNet *)

\* C30: for every image width and height for which all stage dimensions are
\* positive, the input count of fc1 is the per-sample element count of the
\* pool2 output tensor, so the fc1 matrix multiply reads exactly the pooled
\* activations.
C30_Fc1ReadsPooledActivations ==
    (call.state = "returned" /\ call.fn = "Network") =>
        LET t == call.out.context
        IN  (/\ t.conv1Tensor.h > 0 /\ t.conv1Tensor.w > 0
             /\ t.pool1Tensor.h > 0 /\ t.pool1Tensor.w > 0
             /\ t.conv2Tensor.h > 0 /\ t.conv2Tensor.w > 0
             /\ t.pool2Tensor.h > 0 /\ t.pool2Tensor.w > 0) =>
                call.out.fc1_inputs
                    = t.pool2Tensor.c * t.pool2Tensor.h * t.pool2Tensor.w

-----------------------------------------------------------------------------
(* Properties of the reads of the classification loop *)

\* C31: on every process that runs the classification loop, and for every
\* value of the classify flag, every image index read from the test image
\* and test label arrays lies inside the test set the process loaded.
C31_EvaluationReadsInsideTestSet ==
    (call.state = "returned" /\ call.fn = "EvaluationReads") =>
        \A i \in call.out.reads : i < call.out.loaded

-----------------------------------------------------------------------------
(* Properties of the dataset parameters, on the runs of SpecStart *)

\* C32: after the dataset-parameter broadcasts every worker's width, height,
\* train_size and train_images_size equal the coordinator's in full, all
\* bits of the size-typed variables.
C32_ParametersEqualInFull ==
    \A r \in Workers :
        pc[r] \notin {"read", "params"} => dataset[r] = dataset[0]

-----------------------------------------------------------------------------
(* Properties of the save block, on the runs of SpecSave *)

\* C33: when weight saving is enabled, each weight file (conv1, conv2, ip1,
\* ip2 and their bias files) is written by at most one process of the run.
C33_OneWriterPerFile ==
    (call.state = "running" /\ call.fn = "SaveData" /\ call.save_data) =>
        \A f \in NetworkFiles : Cardinality(call.writers[f]) <= 1

-----------------------------------------------------------------------------
(* Properties of the initial weights, on the runs of SpecStartNetwork *)

\* C34: before the first iteration every worker's local weights equal the
\* coordinator's initial global weights for all eight tensors, for every
\* value of the random-seed flag.
C34_WorkersStartFromGlobalWeights ==
    (call.state = "running" /\ call.fn = "StartNetwork") =>
        \A w \in Workers :
            (call.at[w] = "copied" /\ call.at[0] = "copied") =>
                call.d_p[w] = call.d_gp[0]

=============================================================================
